---- MODULE Spec2Model ----
(***************************************************************************)
(* The credential and session authority of                                 *)
(* packages/gin/challenge-1-basic-routing/submissions/q1ngy/solution.go    *)
(* (the third program of that file, lines 494-1329): registration, login   *)
(* with brute-force lockout, JWT access tokens paired with opaque refresh  *)
(* tokens, logout (blacklist), refresh (rotation) and the role gate.       *)
(*                                                                         *)
(* Time is counted in ticks of 1/TicksPerSecond second, so that the        *)
(* truncation of JWT dates to whole seconds is visible.  Passwords are     *)
(* sequences of code points.  A bcrypt hash is the pair (cost, password):  *)
(* an ideal one-way function that only verifyPassword can compare.  An     *)
(* HS256 signature is the pair (key, signed payload): an ideal MAC.        *)
(* crypto/rand never repeats a value: the k-th random token is k.          *)
(***************************************************************************)
EXTENDS Integers, Sequences, FiniteSets, TLC

\* ------------------------------------------------------------------ bounds
TicksPerSecond == 2
MaxUsers == 2
MaxEffects == 2
RoleMaxEffects == 3
TtlMaxTokens == 2
RaceMaxTokens == 1
RaceMaxFailures == 5
MaxCoarse == 1
TokMaxTokens == 2
TokMaxBlacklist == 1
TokMaxCoarse == 2
RotMaxTokens == 3
RotMaxBlacklist == 1
ConcMaxUsers == 3
ConcMaxTokens == 3
LockMaxTokens == 1
LockMaxFailures == 6
LockMaxCoarse == 3
IssueMaxTokens == 3
StrengthMaxCore == 4
StrengthMaxPad == 5
LogoutMaxTokens == 1
LogoutMaxBlacklist == 2
RelockMaxTokens == 2
RelockMaxFailures == 10

\* --------------------------------------------------------------- constants
Second == TicksPerSecond
Minute == 60 * Second
accessTokenTTL == 15 * Minute
refreshTokenTTL == 7 * 24 * 60 * Minute
lockoutDuration == 30 * Minute
maxFailedAttempts == 5
jwtSecret == "your-super-secret-jwt-key"
RoleUser == "user"
RoleAdmin == "admin"
RoleModerator == "moderator"
bcryptDefaultCost == 10
hashPasswordCost == 12
NoTime == 0 - 1

\* ------------------------------------------------------------- input sets
AdminPw == <<97, 100, 109, 105, 110, 49, 50, 51>>
StrongPw == <<65, 97, 49, 33, 97, 97, 97, 97>>
OtherPw == <<66, 98, 50, 35, 98, 98, 98, 98>>
WeakPw == <<97, 97, 97, 97, 97, 97, 97, 97>>
ShortPw == <<65, 97, 49, 33>>
Usernames == {"alice"}
Emails == {"alice@x.com", "admin@example.com"}
RoleChanges == {<<1, RoleUser>>, <<2, RoleModerator>>, <<2, RoleAdmin>>, <<2, "root">>,
                <<2, "">>, <<9, RoleUser>>}

\* ------------------------------------------------------- password policy
\* A password is the sequence of its code points.  Go's len(password) is
\* the number of bytes of its UTF-8 encoding; range password yields the code
\* points.
RuneLen(char) ==
  IF char < 128 THEN 1 ELSE IF char < 2048 THEN 2 ELSE IF char < 65536 THEN 3 ELSE 4

RECURSIVE ByteLen(_)
ByteLen(password) ==
  IF password = <<>> THEN 0 ELSE RuneLen(Head(password)) + ByteLen(Tail(password))

\* A policy that looks at the length alone.
isStrongPassword_length_only(password) == ByteLen(password) >= 8

isStrongPassword(password) ==
  LET hasUpper == \E i \in 1..Len(password) : 65 <= password[i] /\ password[i] <= 90
      hasLower == \E i \in 1..Len(password) : 97 <= password[i] /\ password[i] <= 122
      hasDigit == \E i \in 1..Len(password) : 48 <= password[i] /\ password[i] <= 57
      hasSpecial == \E i \in 1..Len(password) :
                      /\ ~(65 <= password[i] /\ password[i] <= 90)
                      /\ ~(97 <= password[i] /\ password[i] <= 122)
                      /\ ~(48 <= password[i] /\ password[i] <= 57)
  IN IF ByteLen(password) < 8 THEN FALSE
     ELSE hasUpper /\ hasLower /\ hasDigit /\ hasSpecial

bcryptGenerate(password, cost) == [cost |-> cost, of |-> password]

hashPassword(password) == bcryptGenerate(password, hashPasswordCost)

verifyPassword(password, hash) == hash.of = password

\* ------------------------------------------------------------ JWT tokens
Truncate(t) == t - (t % Second)

HS256(payload, key) == [key |-> key, over |-> payload]

SignedString(claims, key) == [payload |-> claims, sig |-> HS256(claims, key)]

Garbage == [payload |-> [raw |-> "not-a-jwt"], sig |-> [key |-> "", over |-> [raw |-> ""]]]

WellFormed(tok) == DOMAIN tok.payload = {"UserID", "Username", "Role", "ExpiresAt", "IssuedAt", "Issuer"}

accessClaims_default_role(userID, username, role, t) ==
  [UserID |-> userID, Username |-> username, Role |-> RoleUser,
   ExpiresAt |-> Truncate(t + accessTokenTTL), IssuedAt |-> Truncate(t),
   Issuer |-> "your-app"]

accessClaims(userID, username, role, t) ==
  [UserID |-> userID, Username |-> username, Role |-> role,
   ExpiresAt |-> Truncate(t + accessTokenTTL), IssuedAt |-> Truncate(t),
   Issuer |-> "your-app"]

NotExpired_inclusive(claims, t) == t <= claims.ExpiresAt

NotExpired(claims, t) == t < claims.ExpiresAt

ParseWithClaims(tokenString, t) ==
  IF ~WellFormed(tokenString) THEN [err |-> "malformed", claims |-> <<>>]
  ELSE IF tokenString.sig # HS256(tokenString.payload, jwtSecret)
       THEN [err |-> "signature", claims |-> <<>>]
  ELSE IF ~NotExpired(tokenString.payload, t) THEN [err |-> "expired", claims |-> <<>>]
  ELSE [err |-> "", claims |-> <<tokenString.payload>>]

validateToken_no_blacklist(blacklist, tokenString, t) == ParseWithClaims(tokenString, t)

validateToken_parse_first(blacklist, tokenString, t) ==
  IF ParseWithClaims(tokenString, t).err # "" THEN ParseWithClaims(tokenString, t)
  ELSE IF tokenString \in blacklist THEN [err |-> "blacklisted", claims |-> <<>>]
  ELSE ParseWithClaims(tokenString, t)

validateToken(blacklist, tokenString, t) ==
  IF tokenString \in blacklist THEN [err |-> "blacklisted", claims |-> <<>>]
  ELSE ParseWithClaims(tokenString, t)

\* ------------------------------------------------------------ user store
NewUser(id, username, email, hash, first, last, role, verified, t) ==
  [ID |-> id, Username |-> username, Email |-> email, PasswordHash |-> hash,
   FirstName |-> first, LastName |-> last, Role |-> role, IsActive |-> TRUE,
   EmailVerified |-> verified, LastLogin |-> NoTime, FailedAttempts |-> 0,
   LockedUntil |-> NoTime, CreatedAt |-> t, UpdatedAt |-> t]

\* The lookups return the index of the first match (the pointer &users[i]),
\* 0 for nil.
FirstIndex(matches) ==
  IF matches = {} THEN 0
  ELSE CHOOSE i \in matches : \A j \in matches : i <= j

findUserByUsername_skips_first(us, username) ==
  IF username = "" THEN 0
  ELSE FirstIndex({i \in 2..Len(us) : us[i].Username = username})

findUserByUsername(us, username) ==
  IF username = "" THEN 0
  ELSE FirstIndex({i \in 1..Len(us) : us[i].Username = username})

findUserByEmail_skips_first(us, email) ==
  IF email = "" THEN 0
  ELSE FirstIndex({i \in 2..Len(us) : us[i].Email = email})

findUserByEmail(us, email) ==
  IF email = "" THEN 0
  ELSE FirstIndex({i \in 1..Len(us) : us[i].Email = email})

findUserByID(us, id) == FirstIndex({i \in 1..Len(us) : us[i].ID = id})

\* ---------------------------------------------------------------- lockout
isAccountLocked_never_ends(user, t) == user.LockedUntil # NoTime

\* A lock that is over one access-token lifetime before locked_until.
isAccountLocked_ends_early(user, t) ==
  IF user.LockedUntil = NoTime THEN FALSE ELSE user.LockedUntil > t + accessTokenTTL

\* A lock that still holds at the instant locked_until.
isAccountLocked_inclusive(user, t) ==
  IF user.LockedUntil = NoTime THEN FALSE ELSE user.LockedUntil >= t

isAccountLocked(user, t) ==
  IF user.LockedUntil = NoTime THEN FALSE ELSE user.LockedUntil > t

recordFailedAttempt_one_late(user, t) ==
  LET n == user.FailedAttempts + 1 IN
  IF n > maxFailedAttempts
  THEN [user EXCEPT !.LockedUntil = t + lockoutDuration, !.FailedAttempts = 0]
  ELSE [user EXCEPT !.FailedAttempts = n]

recordFailedAttempt_no_reset(user, t) ==
  LET n == user.FailedAttempts + 1 IN
  IF n >= maxFailedAttempts
  THEN [user EXCEPT !.LockedUntil = t + lockoutDuration, !.FailedAttempts = n]
  ELSE [user EXCEPT !.FailedAttempts = n]

\* A failure that also stamps the record's last login.
recordFailedAttempt_stamps_login(user, t) ==
  LET n == user.FailedAttempts + 1 IN
  IF n >= maxFailedAttempts
  THEN [user EXCEPT !.LockedUntil = t + lockoutDuration, !.FailedAttempts = 0,
                    !.LastLogin = t]
  ELSE [user EXCEPT !.FailedAttempts = n, !.LastLogin = t]

\* A lock that lasts as long as an access token rather than lockoutDuration.
recordFailedAttempt_short_lock(user, t) ==
  LET n == user.FailedAttempts + 1 IN
  IF n >= maxFailedAttempts
  THEN [user EXCEPT !.LockedUntil = t + accessTokenTTL, !.FailedAttempts = 0]
  ELSE [user EXCEPT !.FailedAttempts = n]

recordFailedAttempt(user, t) ==
  LET n == user.FailedAttempts + 1 IN
  IF n >= maxFailedAttempts
  THEN [user EXCEPT !.LockedUntil = t + lockoutDuration, !.FailedAttempts = 0]
  ELSE [user EXCEPT !.FailedAttempts = n]

\* A reset that ends the lock but keeps the count.
resetFailedAttempts_keeps_counter(user) == [user EXCEPT !.LockedUntil = NoTime]

resetFailedAttempts(user) ==
  [user EXCEPT !.FailedAttempts = 0, !.LockedUntil = NoTime]

\* ----------------------------------------------------------- token issuer
\* rnd is the value crypto/rand delivers to generateRandomToken.
\* A generator that keeps one bit of what crypto/rand delivers.
generateRandomToken_one_bit(rnd) == ((rnd + 1) % 2) + 1

generateRandomToken(rnd) == rnd

\* An issuer that returns the pair without storing the refresh token.
generateTokens_forgets_mapping(rt, userID, username, role, t, rnd) ==
  LET accessTokenString == SignedString(accessClaims(userID, username, role, t), jwtSecret)
  IN [refreshTokens |-> rt,
      tokens |-> [AccessToken |-> accessTokenString,
                  RefreshToken |-> generateRandomToken(rnd),
                  TokenType |-> "Bearer", ExpiresIn |-> accessTokenTTL \div Second,
                  ExpiresAt |-> t + accessTokenTTL]]

\* An issuer that stores the refresh token under the id after the user's.
generateTokens_maps_next_id(rt, userID, username, role, t, rnd) ==
  LET refreshToken == generateRandomToken(rnd) IN
  [refreshTokens |-> [k \in DOMAIN rt \cup {refreshToken} |->
                        IF k = refreshToken THEN userID + 1 ELSE rt[k]],
   tokens |-> generateTokens_forgets_mapping(rt, userID, username, role, t, rnd).tokens]

generateTokens(rt, userID, username, role, t, rnd) ==
  LET accessTokenString == SignedString(accessClaims(userID, username, role, t), jwtSecret)
      refreshToken == generateRandomToken(rnd)
  IN [refreshTokens |-> [k \in DOMAIN rt \cup {refreshToken} |->
                           IF k = refreshToken THEN userID ELSE rt[k]],
      tokens |-> [AccessToken |-> accessTokenString, RefreshToken |-> refreshToken,
                  TokenType |-> "Bearer", ExpiresIn |-> accessTokenTTL \div Second,
                  ExpiresAt |-> t + accessTokenTTL]]

\* blacklistedTokens[tokenString] = true, on the set of keys of the map.
blacklistToken_toggle(bl, tokenString) ==
  IF tokenString \in bl THEN bl \ {tokenString} ELSE bl \cup {tokenString}

\* A blacklist that remembers the last revoked token only.
blacklistToken_only_latest(bl, tokenString) == {tokenString}

blacklistToken(bl, tokenString) == bl \cup {tokenString}

\* A delete that ends every session of the user the key is mapped to.
deleteKey_by_user(rt, k) ==
  [x \in {y \in DOMAIN rt : k \notin DOMAIN rt \/ rt[y] # rt[k]} |-> rt[x]]

deleteKey_clears(rt, k) == [x \in {} |-> 0]

deleteKey_keeps(rt, k) == rt

deleteKey(rt, k) == [x \in DOMAIN rt \ {k} |-> rt[x]]

\* ------------------------------------------------------------------ state
VARIABLES
  users,              \* var users []User
  blacklistedTokens,  \* var blacklistedTokens map[string]bool (the keys)
  refreshTokens,      \* var refreshTokens map[string]int
  nextUserID,         \* var nextUserID
  now,                \* the wall clock read by time.Now()
  nextRand,           \* the next value crypto/rand delivers
  resp,               \* the request just served and what was written to it
  hist,               \* history: what was issued, revoked, rotated, failed
  proc                \* the request handlers that run step by step

vars == <<users, blacklistedTokens, refreshTokens, nextUserID, now, nextRand,
          resp, hist, proc>>

Procs == {1, 2}
NoResponse == [op |-> "none"]
Idle == [pc |-> "idle"]
AllNames == Usernames \cup {"admin"}
UnknownRefresh == 0 - 1

SeedAdmin ==
  NewUser(1, "admin", "admin@example.com", hashPassword(AdminPw),
          "Admin", "User", RoleAdmin, TRUE, 0)

Init ==
  /\ users = <<SeedAdmin>>
  /\ blacklistedTokens = {}
  /\ refreshTokens = <<>>
  /\ nextUserID = 2
  /\ now = 0
  /\ nextRand = 1
  /\ resp = NoResponse
  /\ hist = [issued |-> {}, revoked |-> {}, rotated |-> {},
             streak |-> [n \in AllNames |-> 0],
             fifthAt |-> [n \in AllNames |-> NoTime], failures |-> 0,
             writes |-> 0]
  /\ proc = [p \in Procs |-> Idle]

\* What a client can hold: the pairs the server returned.
IssuedAccess == {r.tok : r \in hist.issued}
IssuedRefresh == 1..(nextRand - 1)
Tampered(tok) == [tok EXCEPT !.payload.Role = RoleAdmin]
BearerInputs == IssuedAccess \cup {Tampered(t) : t \in IssuedAccess} \cup {Garbage}
Headers == {<<>>} \cup {<<t>> : t \in BearerInputs}
PlainHeaders == {<<>>, <<Garbage>>} \cup {<<t>> : t \in IssuedAccess}
RefreshInputs == {0, UnknownRefresh} \cup IssuedRefresh

NoteIssued(h, tokens, user, t) ==
  [h EXCEPT !.issued = @ \cup {[tok |-> tokens.AccessToken, uid |-> user.ID,
                                 username |-> user.Username, role |-> user.Role,
                                 at |-> t, refresh |-> tokens.RefreshToken]}]

\* ----------------------------------------------------------------- clock
\* The instants the clock is observed at: the multiples of the access-token
\* lifetime (the lockout lasts two) and, where fine is set, every tick of the
\* first second.
TimePoints(maxCoarse, fine) ==
  {k * accessTokenTTL : k \in 0..maxCoarse} \cup (IF fine THEN 0..(Second - 1) ELSE {})

Tick(t) ==
  /\ t > now
  /\ now' = t
  /\ UNCHANGED <<users, blacklistedTokens, refreshTokens, nextUserID, nextRand, resp, hist,
                 proc>>

\* The response written by the handler reaches the client; the server is
\* ready for the next request.
Deliver ==
  /\ resp # NoResponse
  /\ resp' = NoResponse
  /\ UNCHANGED <<users, blacklistedTokens, refreshTokens, nextUserID, now, nextRand, hist,
                 proc>>

\* ------------------------------------------- POST /auth/register (atomic)
Register(username, email, password, confirm) ==
  LET req == [Username |-> username, Email |-> email, Password |-> password,
              ConfirmPassword |-> confirm]
      Reply(status, error) ==
        /\ resp' = [op |-> "register", req |-> req, status |-> status, error |-> error,
                    data |-> <<>>]
        /\ UNCHANGED <<users, nextUserID>>
      newUser == NewUser(nextUserID, username, email,
                         bcryptGenerate(password, bcryptDefaultCost),
                         "First", "Last", RoleUser, FALSE, now)
  IN /\ IF Len(password) < 8 THEN Reply(400, "Invalid input data")
        ELSE IF password # confirm THEN Reply(400, "Passwords do not match")
        ELSE IF ~isStrongPassword(password)
             THEN Reply(400, "Password does not meet strength requirements")
        ELSE IF findUserByUsername(users, username) # 0 \/ findUserByEmail(users, email) # 0
             THEN Reply(409, "Username or email is already taken")
        ELSE /\ users' = Append(users, newUser)
             /\ nextUserID' = nextUserID + 1
             /\ resp' = [op |-> "register", req |-> req, status |-> 201, error |-> "",
                         data |-> <<newUser>>]
     /\ UNCHANGED <<blacklistedTokens, refreshTokens, now, nextRand, hist, proc>>

\* ---------------------------------------------- POST /auth/login (atomic)
\* streak counts the wrong-password logins of a user since the last successful
\* one; fifthAt is when the fifth happened.
NoteFailure(h, username, t) ==
  LET n == h.streak[username] + 1
  IN [h EXCEPT !.streak[username] = n,
               !.fifthAt[username] = IF n = maxFailedAttempts THEN t ELSE @,
               !.failures = @ + 1]

NoteSuccess(h, username) ==
  [h EXCEPT !.streak[username] = 0, !.fifthAt[username] = NoTime]

\* The error responses of login, by the check that failed.
loginError_names_unknown(failed) ==
  CASE failed = "binding" -> [status |-> 400, error |-> "Invalid credentials format"]
    [] failed = "unknown" -> [status |-> 404, error |-> "User not found"]
    [] failed = "locked" -> [status |-> 423, error |-> "Account is temporarily locked"]
    [] failed = "password" -> [status |-> 401, error |-> "Invalid credentials"]

loginError(failed) ==
  CASE failed = "binding" -> [status |-> 400, error |-> "Invalid credentials format"]
    [] failed = "unknown" -> [status |-> 401, error |-> "Invalid credentials"]
    [] failed = "locked" -> [status |-> 423, error |-> "Account is temporarily locked"]
    [] failed = "password" -> [status |-> 401, error |-> "Invalid credentials"]

\* A login that refuses everybody while any account is locked.
Login_global_lockout(username, password) ==
  LET req == [Username |-> username, Password |-> password]
      i == findUserByUsername(users, username)
      Reply(failed) ==
        resp' = [op |-> "login", req |-> req, status |-> loginError(failed).status,
                 error |-> loginError(failed).error, data |-> <<>>]
      user == resetFailedAttempts(users[i])
      logged == [user EXCEPT !.LastLogin = now]
      gen == generateTokens(refreshTokens, logged.ID, logged.Username, logged.Role,
                            now, nextRand)
  IN /\ IF Len(password) < 8
        THEN /\ Reply("binding")
             /\ UNCHANGED <<users, refreshTokens, nextRand, hist>>
        ELSE IF i = 0
        THEN /\ Reply("unknown")
             /\ UNCHANGED <<users, refreshTokens, nextRand, hist>>
        ELSE IF \E j \in 1..Len(users) : isAccountLocked(users[j], now)
        THEN /\ Reply("locked")
             /\ UNCHANGED <<users, refreshTokens, nextRand, hist>>
        ELSE IF ~verifyPassword(password, users[i].PasswordHash)
        THEN /\ users' = [users EXCEPT ![i] = recordFailedAttempt(@, now)]
             /\ Reply("password")
             /\ hist' = NoteFailure(hist, username, now)
             /\ UNCHANGED <<refreshTokens, nextRand>>
        ELSE /\ users' = [users EXCEPT ![i] = logged]
             /\ refreshTokens' = gen.refreshTokens
             /\ nextRand' = nextRand + 1
             /\ resp' = [op |-> "login", req |-> req, status |-> 200, error |-> "",
                         data |-> <<gen.tokens>>]
             /\ hist' = NoteIssued(NoteSuccess(hist, username), gen.tokens, logged, now)
     /\ UNCHANGED <<blacklistedTokens, nextUserID, now, proc>>

Login(username, password) ==
  LET req == [Username |-> username, Password |-> password]
      i == findUserByUsername(users, username)
      Reply(failed) ==
        resp' = [op |-> "login", req |-> req, status |-> loginError(failed).status,
                 error |-> loginError(failed).error, data |-> <<>>]
      user == resetFailedAttempts(users[i])
      logged == [user EXCEPT !.LastLogin = now]
      gen == generateTokens(refreshTokens, logged.ID, logged.Username, logged.Role,
                            now, nextRand)
  IN /\ IF Len(password) < 8
        THEN /\ Reply("binding")
             /\ UNCHANGED <<users, refreshTokens, nextRand, hist>>
        ELSE IF i = 0
        THEN /\ Reply("unknown")
             /\ UNCHANGED <<users, refreshTokens, nextRand, hist>>
        ELSE IF isAccountLocked(users[i], now)
        THEN /\ Reply("locked")
             /\ UNCHANGED <<users, refreshTokens, nextRand, hist>>
        ELSE IF ~verifyPassword(password, users[i].PasswordHash)
        THEN /\ users' = [users EXCEPT ![i] = recordFailedAttempt(@, now)]
             /\ Reply("password")
             /\ hist' = NoteFailure(hist, username, now)
             /\ UNCHANGED <<refreshTokens, nextRand>>
        ELSE /\ users' = [users EXCEPT ![i] = logged]
             /\ refreshTokens' = gen.refreshTokens
             /\ nextRand' = nextRand + 1
             /\ resp' = [op |-> "login", req |-> req, status |-> 200, error |-> "",
                         data |-> <<gen.tokens>>]
             /\ hist' = NoteIssued(NoteSuccess(hist, username), gen.tokens, logged, now)
     /\ UNCHANGED <<blacklistedTokens, nextUserID, now, proc>>

\* --------------------------------------------- POST /auth/logout (atomic)
\* header is the Authorization header (<<>> when absent) with "Bearer "
\* trimmed; refresh is the body's refresh_token (0 when empty or absent).
\* The response notes whether the token was revoked already (again) and
\* whether the refresh token was in the map (held).
Logout(header, refresh) ==
  LET req == [Header |-> header, RefreshToken |-> refresh] IN
  /\ IF header = <<>>
     THEN /\ resp' = [op |-> "logout", req |-> req, status |-> 401,
                      error |-> "Authorization header required", data |-> <<>>,
                      again |-> FALSE, held |-> FALSE]
          /\ UNCHANGED <<blacklistedTokens, refreshTokens, hist>>
     ELSE /\ blacklistedTokens' = blacklistToken(blacklistedTokens, header[1])
          /\ refreshTokens' = IF refresh # 0 THEN deleteKey(refreshTokens, refresh)
                              ELSE refreshTokens
          /\ hist' = [hist EXCEPT !.revoked = @ \cup {header[1]}]
          /\ resp' = [op |-> "logout", req |-> req, status |-> 200, error |-> "",
                      data |-> <<>>, again |-> header[1] \in blacklistedTokens,
                      held |-> refresh \in DOMAIN refreshTokens]
  /\ UNCHANGED <<users, nextUserID, now, nextRand, proc>>

\* -------------------------------------------- POST /auth/refresh (atomic)
\* entropy says whether crypto/rand delivers the bytes generateRandomToken
\* asks for; when it does not, generateTokens returns the error and the
\* handler answers 500, after the delete of line 984.
RefreshTokenWith(refresh, entropy) ==
  LET req == [RefreshToken |-> refresh]
      Reply(status, error) ==
        /\ resp' = [op |-> "refresh", req |-> req, status |-> status, error |-> error,
                    data |-> <<>>]
        /\ UNCHANGED <<refreshTokens, nextRand, hist>>
      i == findUserByID(users, refreshTokens[refresh])
      user == users[i]
      gen == generateTokens(deleteKey(refreshTokens, refresh), user.ID, user.Username,
                            user.Role, now, nextRand)
  IN /\ IF refresh = 0 THEN Reply(400, "Refresh token required")
        ELSE IF refresh \notin DOMAIN refreshTokens
        THEN Reply(401, "Invalid or expired refresh token")
        ELSE IF i = 0 \/ ~user.IsActive
        THEN Reply(401, "User not found or is not active")
        ELSE IF ~entropy
        THEN /\ refreshTokens' = deleteKey(refreshTokens, refresh)
             /\ resp' = [op |-> "refresh", req |-> req, status |-> 500,
                         error |-> "Failed to generate new tokens", data |-> <<>>]
             /\ UNCHANGED <<nextRand, hist>>
        ELSE /\ refreshTokens' = gen.refreshTokens
             /\ nextRand' = nextRand + 1
             /\ hist' = NoteIssued([hist EXCEPT !.rotated = @ \cup {refresh}],
                                   gen.tokens, user, now)
             /\ resp' = [op |-> "refresh", req |-> req, status |-> 200, error |-> "",
                         data |-> <<gen.tokens>>]
     /\ UNCHANGED <<users, blacklistedTokens, nextUserID, now, proc>>

\* A refresh served while the entropy source works.
RefreshToken(refresh) == RefreshTokenWith(refresh, TRUE)

\* ------------------------------------------------------ middleware chain
\* A handler's outcome: what it wrote (status, error), the data it returned,
\* the store it leaves, and whether it aborted the chain.
Wrote(status, error) == <<[status |-> status, error |-> error]>>

\* authMiddleware: on a validation error it writes 401 and returns without
\* c.Abort(), so gin goes on to the next handler of the chain.
authMiddleware(blacklist, header, t) ==
  IF header = <<>>
  THEN [abort |-> TRUE, writes |-> Wrote(401, "Authorization header required"),
        ctx |-> <<>>, v |-> "none"]
  ELSE LET r == validateToken(blacklist, header[1], t) IN
       IF r.err # ""
       THEN [abort |-> FALSE, writes |-> Wrote(401, "invalid token"), ctx |-> <<>>,
             v |-> r.err]
       ELSE [abort |-> FALSE, writes |-> <<>>, ctx |-> r.claims, v |-> "ok"]

\* c.Set("user", &User{ID, Username, Role}): a fresh record, not the store's.
ContextUser_from_store(claims) ==
  [ID |-> claims.UserID, Username |-> claims.Username,
   Role |-> users[findUserByID(users, claims.UserID)].Role,
   Email |-> "", FirstName |-> "", LastName |-> "", UpdatedAt |-> NoTime]

ContextUser(claims) ==
  [ID |-> claims.UserID, Username |-> claims.Username, Role |-> claims.Role,
   Email |-> "", FirstName |-> "", LastName |-> "", UpdatedAt |-> NoTime]

requireRole_any_user(roles, ctx) ==
  IF ctx = <<>>
  THEN [abort |-> TRUE, writes |-> Wrote(403, "User data not found in context. Access denied.")]
  ELSE [abort |-> FALSE, writes |-> <<>>]

requireRole(roles, ctx) ==
  IF ctx = <<>>
  THEN [abort |-> TRUE, writes |-> Wrote(403, "User data not found in context. Access denied.")]
  ELSE IF \E allowedRole \in roles : ContextUser(ctx[1]).Role = allowedRole
       THEN [abort |-> FALSE, writes |-> <<>>]
       ELSE [abort |-> TRUE, writes |-> Wrote(403, "Access denied")]

WellFormedEmail(email) == email \notin {"", "not-an-email"}

getUserProfile(us, ctx) ==
  IF ctx = <<>>
  THEN [writes |-> Wrote(500, "Internal server error: user data in context is corrupted"),
        data |-> <<>>, users |-> us]
  ELSE [writes |-> Wrote(200, ""), data |-> <<ContextUser(ctx[1])>>, users |-> us]

updateUserProfile(us, ctx, first, last, email, t) ==
  LET currentUser == ContextUser(ctx[1]) IN
  IF ctx = <<>>
  THEN [writes |-> Wrote(401, "User not found in context"), data |-> <<>>, users |-> us]
  ELSE IF first = "" \/ last = "" \/ ~WellFormedEmail(email)
  THEN [writes |-> Wrote(400, "Invalid input data"), data |-> <<>>, users |-> us]
  ELSE IF currentUser.Email # email /\ findUserByEmail(us, email) # 0
  THEN [writes |-> Wrote(409, "Email is already taken"), data |-> <<>>, users |-> us]
  ELSE [writes |-> Wrote(200, ""),
        data |-> <<[currentUser EXCEPT !.FirstName = first, !.LastName = last,
                                       !.Email = email, !.UpdatedAt = t]>>,
        users |-> us]

changePassword(us, ctx, current, new, t) ==
  LET i == findUserByID(us, ctx[1].UserID) IN
  IF ctx = <<>>
  THEN [writes |-> Wrote(401, "Unauthorized"), data |-> <<>>, users |-> us]
  ELSE IF i = 0
  THEN [writes |-> Wrote(401, "User not found"), data |-> <<>>, users |-> us]
  ELSE IF Len(current) = 0 \/ Len(new) < 8
  THEN [writes |-> Wrote(400, "Invalid input data"), data |-> <<>>, users |-> us]
  ELSE IF ~verifyPassword(current, us[i].PasswordHash)
  THEN [writes |-> Wrote(400, "Incorrect current password"), data |-> <<>>, users |-> us]
  ELSE [writes |-> Wrote(200, ""), data |-> <<>>,
        users |-> [us EXCEPT ![i].PasswordHash = bcryptGenerate(new, bcryptDefaultCost),
                             ![i].UpdatedAt = t]]

Min(a, b) == IF a < b THEN a ELSE b

listUsers(us, pageIn, limitIn) ==
  LET page == IF pageIn < 1 THEN 1 ELSE pageIn
      limit == IF limitIn < 1 THEN 10 ELSE limitIn
      startIndex == (page - 1) * limit
      endIndex == Min(startIndex + limit, Len(us))
  IN IF startIndex >= Len(us)
     THEN [writes |-> Wrote(200, ""), data |-> <<>>, users |-> us]
     ELSE [writes |-> Wrote(200, ""), data |-> SubSeq(us, startIndex + 1, endIndex),
           users |-> us]

changeUserRole(us, id, role, t) ==
  LET i == findUserByID(us, id) IN
  IF role = ""
  THEN [writes |-> Wrote(400, "Invalid role data"), data |-> <<>>, users |-> us]
  ELSE IF role \notin {RoleAdmin, RoleModerator, RoleUser}
  THEN [writes |-> Wrote(400, "Invalid role specified"), data |-> <<>>, users |-> us]
  ELSE IF i = 0
  THEN [writes |-> Wrote(404, "User not found"), data |-> <<>>, users |-> us]
  ELSE LET updated == [us EXCEPT ![i].Role = role, ![i].UpdatedAt = t]
       IN [writes |-> Wrote(200, ""), data |-> <<updated[i]>>, users |-> updated]

\* A request to a route of the /user group (authMiddleware, handler) or of
\* the /admin group (authMiddleware, requireRole(RoleAdmin), handler).
\* out is the handler's outcome on the context authMiddleware left.
Context(header) == authMiddleware(blacklistedTokens, header, now).ctx

Serve(op, req, header, admin, out) ==
  LET mw == authMiddleware(blacklistedTokens, header, now)
      gate == IF admin /\ ~mw.abort THEN requireRole({RoleAdmin}, mw.ctx)
              ELSE [abort |-> FALSE, writes |-> <<>>]
      runs == ~mw.abort /\ ~gate.abort
      writes == mw.writes \o gate.writes \o (IF runs THEN out.writes ELSE <<>>)
  IN /\ users' = IF runs THEN out.users ELSE users
     /\ hist' = IF runs /\ out.users # users THEN [hist EXCEPT !.writes = @ + 1] ELSE hist
     /\ resp' = [op |-> op, req |-> req, header |-> header, v |-> mw.v,
                 ran |-> runs, writes |-> writes, status |-> writes[1].status,
                 error |-> writes[1].error,
                 data |-> IF runs THEN out.data ELSE <<>>]
     /\ UNCHANGED <<blacklistedTokens, refreshTokens, nextUserID, now, nextRand, proc>>

GetUserProfile(header) ==
  Serve("profile", <<>>, header, FALSE, getUserProfile(users, Context(header)))

UpdateUserProfile(header, first, last, email) ==
  Serve("update-profile", [FirstName |-> first, LastName |-> last, Email |-> email],
        header, FALSE, updateUserProfile(users, Context(header), first, last, email, now))

ChangePassword(header, current, new) ==
  Serve("change-password", [CurrentPassword |-> current, NewPassword |-> new],
        header, FALSE, changePassword(users, Context(header), current, new, now))

ListUsers(header, page, limit) ==
  Serve("list-users", [page |-> page, limit |-> limit], header, TRUE,
        listUsers(users, page, limit))

ChangeUserRole(header, id, role) ==
  Serve("change-role", [id |-> id, role |-> role], header, TRUE,
        changeUserRole(users, id, role, now))

\* ------------------------------------------- handlers running concurrently
\* gin serves every request on its own goroutine and the handlers take no
\* lock, so the steps of two handlers interleave at each access to the shared
\* variables.  proc[p] is the position and the locals of handler p.
Done(op, req, status, error, data) ==
  [pc |-> "done", op |-> op, req |-> req, status |-> status, error |-> error,
   data |-> data]

SharedFrame == UNCHANGED <<users, blacklistedTokens, refreshTokens, nextUserID, now,
                           nextRand, resp, hist>>

\* register, lines 784-818: binding, confirmation, strength, uniqueness.
RegisterCheck(p, username, email, password, confirm) ==
  LET req == [Username |-> username, Email |-> email]
      Reply(status, error) ==
        proc' = [proc EXCEPT ![p] = Done("register", req, status, error, <<>>)]
  IN /\ proc[p].pc = "idle"
     /\ IF Len(password) < 8 THEN Reply(400, "Invalid input data")
        ELSE IF password # confirm THEN Reply(400, "Passwords do not match")
        ELSE IF ~isStrongPassword(password)
             THEN Reply(400, "Password does not meet strength requirements")
        ELSE IF findUserByUsername(users, username) # 0 \/ findUserByEmail(users, email) # 0
             THEN Reply(409, "Username or email is already taken")
        ELSE proc' = [proc EXCEPT ![p] = [pc |-> "register_hash", req |-> req,
                                          password |-> password]]
     /\ SharedFrame

\* register, lines 820-828: bcrypt.GenerateFromPassword.
RegisterHash(p) ==
  /\ proc[p].pc = "register_hash"
  /\ proc' = [proc EXCEPT ![p] =
                [pc |-> "register_build", req |-> proc[p].req,
                 hash |-> bcryptGenerate(proc[p].password, bcryptDefaultCost)]]
  /\ SharedFrame

\* register, lines 830-842: the new record, with the id read from nextUserID.
RegisterBuild(p) ==
  /\ proc[p].pc = "register_build"
  /\ proc' = [proc EXCEPT ![p] =
                [pc |-> "register_append", req |-> proc[p].req,
                 newUser |-> NewUser(nextUserID, proc[p].req.Username, proc[p].req.Email,
                                     proc[p].hash, "First", "Last", RoleUser, FALSE, now)]]
  /\ SharedFrame

\* register, line 843: append reads the slice ...
RegisterAppendRead(p) ==
  /\ proc[p].pc = "register_append"
  /\ proc' = [proc EXCEPT ![p] = [pc |-> "register_store", req |-> proc[p].req,
                                  newUser |-> proc[p].newUser, seen |-> users]]
  /\ SharedFrame

\* append allocates a new backing array when the slice is full.  The slice
\* starts empty and grows by one element at a time, so its capacity doubles:
\* it is full at the lengths 1, 2, 4 and 8.
Reallocates(length) == length \in {1, 2, 4, 8}

\* A handler between login's lookup and its write holds the pointer
\* &users[i] that findUserByUsername returned.
HoldsPointer(q) == proc[q].pc \in {"login_verify", "login_record", "login_record_write",
                                   "login_reset"}

\* The record the pointer of handler q points to: the store's record, or,
\* once an append has moved the store to a new array, the record of the
\* array left behind.
Pointee(q) == IF proc[q].stale THEN proc[q].old ELSE users[proc[q].user]

\* ... and assigns the extended slice to users.  When the append
\* reallocates, the pointers handed out before keep pointing into the old
\* array.
RegisterAppendWrite(p) ==
  /\ proc[p].pc = "register_store"
  /\ users' = Append(proc[p].seen, proc[p].newUser)
  /\ proc' = [q \in Procs |->
                IF q = p THEN [pc |-> "register_incr", req |-> proc[p].req,
                               newUser |-> proc[p].newUser]
                ELSE IF HoldsPointer(q) /\ ~proc[q].stale
                        /\ Reallocates(Len(proc[p].seen))
                THEN [proc[q] EXCEPT !.stale = TRUE, !.old = users[proc[q].user]]
                ELSE proc[q]]
  /\ UNCHANGED <<blacklistedTokens, refreshTokens, nextUserID, now, nextRand, resp, hist>>

\* register, lines 844-850: nextUserID++ and the 201 response.
RegisterIncr(p) ==
  /\ proc[p].pc = "register_incr"
  /\ nextUserID' = nextUserID + 1
  /\ proc' = [proc EXCEPT ![p] = Done("register", proc[p].req, 201, "",
                                       <<proc[p].newUser>>)]
  /\ UNCHANGED <<users, blacklistedTokens, refreshTokens, now, nextRand, resp, hist>>

\* refreshToken, lines 956-972: binding and the lookup in the map.
RefreshLookup(p, refresh) ==
  LET req == [RefreshToken |-> refresh]
      Reply(status, error) ==
        proc' = [proc EXCEPT ![p] = Done("refresh", req, status, error, <<>>)]
  IN /\ proc[p].pc = "idle"
     /\ IF refresh = 0 THEN Reply(400, "Refresh token required")
        ELSE IF refresh \notin DOMAIN refreshTokens
        THEN Reply(401, "Invalid or expired refresh token")
        ELSE proc' = [proc EXCEPT ![p] = [pc |-> "refresh_find", req |-> req,
                                          userID |-> refreshTokens[refresh]]]
     /\ SharedFrame

\* refreshToken, lines 975-982: findUserByID and the active flag.
RefreshFind(p) ==
  LET i == findUserByID(users, proc[p].userID) IN
  /\ proc[p].pc = "refresh_find"
  /\ IF i = 0 \/ ~users[i].IsActive
     THEN proc' = [proc EXCEPT ![p] = Done("refresh", proc[p].req, 401,
                                            "User not found or is not active", <<>>)]
     ELSE proc' = [proc EXCEPT ![p] = [pc |-> "refresh_delete", req |-> proc[p].req,
                                       user |-> i]]
  /\ SharedFrame

\* refreshToken, line 984: delete(refreshTokens, req.RefreshToken).
RefreshDelete(p) ==
  /\ proc[p].pc = "refresh_delete"
  /\ refreshTokens' = deleteKey(refreshTokens, proc[p].req.RefreshToken)
  /\ proc' = [proc EXCEPT ![p].pc = "refresh_issue"]
  /\ UNCHANGED <<users, blacklistedTokens, nextUserID, now, nextRand, resp, hist>>

\* refreshToken, lines 986-996: generateTokens through the user pointer.
RefreshIssue(p) ==
  LET user == users[proc[p].user]
      gen == generateTokens(refreshTokens, user.ID, user.Username, user.Role, now, nextRand)
  IN /\ proc[p].pc = "refresh_issue"
     /\ refreshTokens' = gen.refreshTokens
     /\ nextRand' = nextRand + 1
     /\ hist' = NoteIssued([hist EXCEPT !.rotated = @ \cup {proc[p].req.RefreshToken}],
                           gen.tokens, user, now)
     /\ proc' = [proc EXCEPT ![p] = Done("refresh", proc[p].req, 200, "", <<gen.tokens>>)]
     /\ UNCHANGED <<users, blacklistedTokens, nextUserID, now, resp>>

\* login, lines 857-882: binding, findUserByUsername, isAccountLocked.
LoginCheck(p, username, password) ==
  LET req == [Username |-> username, Password |-> password]
      i == findUserByUsername(users, username)
      Reply(failed) ==
        proc' = [proc EXCEPT ![p] = Done("login", req, loginError(failed).status,
                                         loginError(failed).error, <<>>)]
  IN /\ proc[p].pc = "idle"
     /\ IF Len(password) < 8 THEN Reply("binding")
        ELSE IF i = 0 THEN Reply("unknown")
        ELSE IF isAccountLocked(users[i], now) THEN Reply("locked")
        ELSE proc' = [proc EXCEPT ![p] = [pc |-> "login_verify", req |-> req, user |-> i,
                                          stale |-> FALSE, old |-> <<>>]]
     /\ SharedFrame

\* login, line 884: verifyPassword against the hash the record holds.
LoginVerify(p) ==
  /\ proc[p].pc = "login_verify"
  /\ proc' = [proc EXCEPT ![p].pc =
                IF verifyPassword(proc[p].req.Password, Pointee(p).PasswordHash)
                THEN "login_reset" ELSE "login_record"]
  /\ SharedFrame

\* recordFailedAttempt, line 753: user.FailedAttempts += 1 reads the counter ...
LoginRecordRead(p) ==
  /\ proc[p].pc = "login_record"
  /\ proc' = [proc EXCEPT ![p] = [pc |-> "login_record_write", req |-> proc[p].req,
                                  user |-> proc[p].user, stale |-> proc[p].stale,
                                  old |-> proc[p].old,
                                  seen |-> Pointee(p).FailedAttempts]]
  /\ SharedFrame

\* ... and writes the counter it read plus one, then locks at the threshold
\* (lines 753-759) and answers 401 (lines 887-891).
LoginRecordWrite(p) ==
  LET i == proc[p].user
      username == proc[p].req.Username
  IN /\ proc[p].pc = "login_record_write"
     /\ users' = IF proc[p].stale THEN users
                 ELSE [users EXCEPT ![i] =
                         recordFailedAttempt([@ EXCEPT !.FailedAttempts = proc[p].seen],
                                             now)]
     /\ hist' = NoteFailure(hist, username, now)
     /\ proc' = [proc EXCEPT ![p] = Done("login", proc[p].req, loginError("password").status,
                                         loginError("password").error, <<>>)]
     /\ UNCHANGED <<blacklistedTokens, refreshTokens, nextUserID, now, nextRand, resp>>

\* login, lines 895-915: resetFailedAttempts, LastLogin, generateTokens, 200.
LoginReset(p) ==
  LET i == proc[p].user
      logged == [resetFailedAttempts(Pointee(p)) EXCEPT !.LastLogin = now]
      gen == generateTokens(refreshTokens, logged.ID, logged.Username, logged.Role,
                            now, nextRand)
  IN /\ proc[p].pc = "login_reset"
     /\ users' = IF proc[p].stale THEN users ELSE [users EXCEPT ![i] = logged]
     /\ refreshTokens' = gen.refreshTokens
     /\ nextRand' = nextRand + 1
     /\ hist' = NoteIssued(NoteSuccess(hist, logged.Username), gen.tokens, logged, now)
     /\ proc' = [proc EXCEPT ![p] = Done("login", proc[p].req, 200, "", <<gen.tokens>>)]
     /\ UNCHANGED <<blacklistedTokens, nextUserID, now, resp>>

\* logout, lines 921-931: the header check and the trimmed token.
LogoutCheck(p, header, refresh) ==
  LET req == [Header |-> header, RefreshToken |-> refresh] IN
  /\ proc[p].pc = "idle"
  /\ IF header = <<>>
     THEN proc' = [proc EXCEPT ![p] = Done("logout", req, 401,
                                            "Authorization header required", <<>>)]
     ELSE proc' = [proc EXCEPT ![p] = [pc |-> "logout_insert", req |-> req]]
  /\ SharedFrame

\* The process after the runtime has thrown "fatal error: concurrent map
\* writes": every goroutine is gone, no handler answers.
Faulted == [q \in Procs |-> [pc |-> "fault"]]

\* logout, line 933: blacklistedTokens[tokenString] = true is a write to a
\* plain Go map.  The assignment takes time; a handler that starts it while
\* another handler's assignment to the same map is under way races with it.
LogoutInsertBegin(p) ==
  LET racing == {q \in Procs \ {p} : proc[q].pc = "logout_inserting"} IN
  /\ proc[p].pc = "logout_insert"
  /\ proc' = [q \in Procs |->
                IF q = p THEN [pc |-> "logout_inserting", req |-> proc[p].req,
                               seen |-> blacklistedTokens, raced |-> racing # {}]
                ELSE IF q \in racing THEN [proc[q] EXCEPT !.raced = TRUE]
                ELSE proc[q]]
  /\ SharedFrame

\* The end of the assignment.  Without a race the key is in the map.  A race
\* on a Go map is undefined: the runtime may detect it and kill the process,
\* the write may land on the buckets the handler saw when it began (losing
\* what was inserted since), or both writes may land.
LogoutInsertEnd(p, outcome) ==
  LET tokenString == proc[p].req.Header[1] IN
  /\ proc[p].pc = "logout_inserting"
  /\ outcome \in {"lands", "fault", "stale"}
  /\ ~proc[p].raced => outcome = "lands"
  /\ IF outcome = "fault"
     THEN /\ proc' = Faulted
          /\ UNCHANGED <<blacklistedTokens, hist>>
     ELSE /\ blacklistedTokens' =
               blacklistToken(IF outcome = "stale" THEN proc[p].seen ELSE blacklistedTokens,
                              tokenString)
          /\ hist' = [hist EXCEPT !.revoked = @ \cup {tokenString}]
          /\ proc' = [proc EXCEPT ![p] = [pc |-> "logout_delete", req |-> proc[p].req]]
  /\ UNCHANGED <<users, refreshTokens, nextUserID, now, nextRand, resp>>

\* logout, lines 935-947: the optional delete of the refresh token and 200.
LogoutDelete(p) ==
  LET refresh == proc[p].req.RefreshToken IN
  /\ proc[p].pc = "logout_delete"
  /\ refreshTokens' = IF refresh # 0 THEN deleteKey(refreshTokens, refresh)
                      ELSE refreshTokens
  /\ proc' = [proc EXCEPT ![p] = Done("logout", proc[p].req, 200, "", <<>>)]
  /\ UNCHANGED <<users, blacklistedTokens, nextUserID, now, nextRand, resp, hist>>

\* The response of handler p reaches its client.
Finish(p) ==
  /\ proc[p].pc = "done"
  /\ proc' = [proc EXCEPT ![p] = Idle]
  /\ SharedFrame

\* ------------------------------------------------------- specifications
\* Every specification serves one request at a time (a request is taken when
\* the previous response has been delivered) and bounds what the environment
\* does in a run: how many users register, how many token pairs are issued,
\* how many wrong passwords are tried, how many tokens are revoked, how many
\* store updates are made, and which instants are observed.
Within(maxUsers, maxTokens, maxFailures, maxBlacklist, maxWrites) ==
  /\ Len(users) <= maxUsers
  /\ nextRand <= maxTokens + 1
  /\ hist.failures <= maxFailures
  /\ Cardinality(blacklistedTokens) <= maxBlacklist
  /\ hist.writes <= maxWrites

Ready == resp = NoResponse

\* The requests of a run that had an effect: token pairs issued, wrong
\* passwords counted, tokens revoked and store updates made.
Effects == (nextRand - 1) + hist.failures + Cardinality(blacklistedTokens) + hist.writes

\* Spec: every route.
Bounded == Len(users) <= MaxUsers /\ Effects <= MaxEffects

Next ==
  \/ Deliver
  \/ Ready /\ \E t \in TimePoints(MaxCoarse, FALSE) : Tick(t)
  \/ Ready /\ \E u \in AllNames, e \in Emails :
       \E pw \in {StrongPw, WeakPw, ShortPw} : \E cf \in {pw, OtherPw} :
          Register(u, e, pw, cf) /\ Bounded'
  \/ Ready /\ \E u \in AllNames \cup {"ghost"}, pw \in {AdminPw, StrongPw, OtherPw, ShortPw} :
       Login(u, pw) /\ Bounded'
  \/ Ready /\ \E h \in PlainHeaders, r \in {0} \cup IssuedRefresh : Logout(h, r) /\ Bounded'
  \/ Ready /\ \E r \in RefreshInputs : RefreshToken(r) /\ Bounded'
  \/ Ready /\ \E h \in PlainHeaders : GetUserProfile(h)
  \/ Ready /\ \E h \in PlainHeaders, e \in {"alice@x.com", "new@x.com", "not-an-email"} :
       UpdateUserProfile(h, "Al", "Ice", e)
  \/ Ready /\ \E h \in PlainHeaders, cur \in {AdminPw, StrongPw}, new \in {OtherPw, ShortPw} :
       ChangePassword(h, cur, new) /\ Bounded'
  \/ Ready /\ \E h \in PlainHeaders, q \in {<<0, 0>>, <<2, 1>>, <<9, 1>>} : ListUsers(h, q[1], q[2])
  \/ Ready /\ \E h \in PlainHeaders, q \in RoleChanges : ChangeUserRole(h, q[1], q[2]) /\ Bounded'

Spec == Init /\ [][Next]_vars

\* SpecRole: logins, rotations and role changes by the administrator, with
\* the routes of the /admin group.
RoleBounded == Len(users) <= MaxUsers /\ Effects <= RoleMaxEffects

NextRole ==
  \/ Deliver
  \/ Ready /\ \E t \in TimePoints(MaxCoarse, FALSE) : Tick(t)
  \/ Ready /\ Register("alice", "alice@x.com", StrongPw, StrongPw) /\ RoleBounded'
  \/ Ready /\ \E u \in AllNames, pw \in {AdminPw, StrongPw} : Login(u, pw) /\ RoleBounded'
  \/ Ready /\ \E r \in IssuedRefresh : RefreshToken(r) /\ RoleBounded'
  \/ Ready /\ \E h \in PlainHeaders : ListUsers(h, 0, 0)
  \/ Ready /\ \E h \in PlainHeaders, q \in {<<1, RoleUser>>, <<2, RoleAdmin>>} :
       ChangeUserRole(h, q[1], q[2]) /\ RoleBounded'

SpecRole == Init /\ [][NextRole]_vars

\* SpecTtl: token pairs issued and rotated before and after the lifetime of
\* a refresh token has passed.
TtlBounded == Within(MaxUsers, TtlMaxTokens, 0, 0, 0)

NextTtl ==
  \/ Deliver
  \/ Ready /\ \E t \in {accessTokenTTL, refreshTokenTTL} : Tick(t)
  \/ Ready /\ Register("alice", "alice@x.com", StrongPw, StrongPw) /\ TtlBounded'
  \/ Ready /\ \E u \in AllNames, pw \in {AdminPw, StrongPw} : Login(u, pw) /\ TtlBounded'
  \/ Ready /\ \E r \in RefreshInputs : RefreshToken(r) /\ TtlBounded'

SpecTtl == Init /\ [][NextTtl]_vars

\* SpecRot: token pairs issued, rotated and revoked, the clock standing still.
RotBounded == Within(MaxUsers, RotMaxTokens, 0, RotMaxBlacklist, 0)

NextRot ==
  \/ Deliver
  \/ Ready /\ Register("alice", "alice@x.com", StrongPw, StrongPw) /\ RotBounded'
  \/ Ready /\ \E u \in AllNames, pw \in {AdminPw, StrongPw} : Login(u, pw) /\ RotBounded'
  \/ Ready /\ \E h \in PlainHeaders, r \in RefreshInputs : Logout(h, r) /\ RotBounded'
  \/ Ready /\ \E r \in RefreshInputs : RefreshToken(r) /\ RotBounded'

SpecRot == Init /\ [][NextRot]_vars

\* SpecTok: the life of a token pair (issue, validate, rotate, revoke, expire)
\* with the clock observed within a second as well.
TokBounded == Within(MaxUsers, TokMaxTokens, 0, TokMaxBlacklist, 0)

NextTok ==
  \/ Deliver
  \/ Ready /\ \E t \in TimePoints(TokMaxCoarse, TRUE) : Tick(t)
  \/ Ready /\ Register("alice", "alice@x.com", StrongPw, StrongPw) /\ TokBounded'
  \/ Ready /\ \E u \in AllNames, pw \in {AdminPw, StrongPw} : Login(u, pw) /\ TokBounded'
  \/ Ready /\ \E h \in Headers : Logout(h, 0) /\ TokBounded'
  \/ Ready /\ \E r \in RefreshInputs : RefreshToken(r) /\ TokBounded'
  \/ Ready /\ \E h \in Headers : GetUserProfile(h)

SpecTok == Init /\ [][NextTok]_vars

\* SpecConc: two handlers run register and refresh step by step, next to
\* logins served whole.
ConcBounded == Within(ConcMaxUsers, ConcMaxTokens, 0, 0, 0)

NextConc ==
  \/ Deliver
  \/ Ready /\ \E u \in AllNames, pw \in {AdminPw, StrongPw} : Login(u, pw) /\ ConcBounded'
  \/ \E p \in Procs, pw \in {StrongPw, WeakPw} :
       RegisterCheck(p, "alice", "alice@x.com", pw, pw)
  \/ \E p \in Procs : RegisterHash(p)
  \/ \E p \in Procs : RegisterBuild(p)
  \/ \E p \in Procs : RegisterAppendRead(p)
  \/ \E p \in Procs : RegisterAppendWrite(p) /\ ConcBounded'
  \/ \E p \in Procs : RegisterIncr(p)
  \/ \E p \in Procs, r \in RefreshInputs : RefreshLookup(p, r)
  \/ \E p \in Procs : RefreshFind(p)
  \/ \E p \in Procs : RefreshDelete(p)
  \/ \E p \in Procs : RefreshIssue(p) /\ ConcBounded'
  \/ \E p \in Procs : Finish(p)

SpecConc == Init /\ [][NextConc]_vars

\* SpecIds: two handlers run register step by step, each for a username
\* and an email of its own.
IdRequests == <<[Username |-> "alice", Email |-> "alice@x.com"],
                [Username |-> "bob", Email |-> "bob@x.com"]>>

NextIds ==
  \/ \E p \in Procs :
       RegisterCheck(p, IdRequests[p].Username, IdRequests[p].Email, StrongPw, StrongPw)
  \/ \E p \in Procs : RegisterHash(p)
  \/ \E p \in Procs : RegisterBuild(p)
  \/ \E p \in Procs : RegisterAppendRead(p)
  \/ \E p \in Procs : RegisterAppendWrite(p) /\ ConcBounded'
  \/ \E p \in Procs : RegisterIncr(p)
  \/ \E p \in Procs : Finish(p)

SpecIds == Init /\ [][NextIds]_vars

\* SpecRace: two handlers run login step by step against the same store.
RaceBounded == Within(MaxUsers, RaceMaxTokens, RaceMaxFailures, 0, 0)

NextRace ==
  \/ \E p \in Procs, u \in {"admin", "ghost"}, pw \in {AdminPw, StrongPw, ShortPw} :
       LoginCheck(p, u, pw)
  \/ \E p \in Procs : LoginVerify(p)
  \/ \E p \in Procs : LoginRecordRead(p)
  \/ \E p \in Procs : LoginRecordWrite(p) /\ RaceBounded'
  \/ \E p \in Procs : LoginReset(p) /\ RaceBounded'
  \/ \E p \in Procs : Finish(p)

SpecRace == Init /\ [][NextRace]_vars

\* SpecStale: handler 1 runs login for the administrator step by step while
\* handler 2 runs register step by step.
NextStale ==
  \/ \E pw \in {AdminPw, StrongPw} : LoginCheck(1, "admin", pw)
  \/ LoginVerify(1)
  \/ LoginRecordRead(1)
  \/ LoginRecordWrite(1) /\ RaceBounded'
  \/ LoginReset(1) /\ RaceBounded'
  \/ \E u \in {"alice", "bob"} : RegisterCheck(2, u, "alice@x.com", StrongPw, StrongPw)
  \/ RegisterHash(2)
  \/ RegisterBuild(2)
  \/ RegisterAppendRead(2)
  \/ RegisterAppendWrite(2) /\ RaceBounded'
  \/ RegisterIncr(2)
  \/ \E p \in Procs : Finish(p)

SpecStale == Init /\ [][NextStale]_vars

\* SpecStrength: isStrongPassword applied to passwords made of a core of up
\* to StrengthMaxCore characters drawn from A, a, 1, ! and the euro sign
\* (three bytes in UTF-8), followed by up to StrengthMaxPad copies of a or of
\* the euro sign.
StrengthAlphabet == {65, 97, 49, 33, 8364}

StrengthInputs ==
  {core \o [i \in 1..k |-> c] :
     core \in UNION {[1..n -> StrengthAlphabet] : n \in 0..StrengthMaxCore},
     c \in {97, 8364}, k \in 0..StrengthMaxPad}

StrengthCheck(password) ==
  /\ resp' = [op |-> "strength", req |-> [Password |-> password],
              ok |-> isStrongPassword(password)]
  /\ UNCHANGED <<users, blacklistedTokens, refreshTokens, nextUserID, now, nextRand, hist,
                 proc>>

NextStrength ==
  \/ Deliver
  \/ Ready /\ \E password \in StrengthInputs : StrengthCheck(password)

SpecStrength == Init /\ [][NextStrength]_vars

\* SpecLogout: two handlers run logout step by step, next to logins served
\* whole.
LogoutBounded == Within(MaxUsers, LogoutMaxTokens, 0, LogoutMaxBlacklist, 0)

NextLogout ==
  \/ Deliver
  \/ Ready /\ Login("admin", AdminPw) /\ LogoutBounded'
  \/ \E p \in Procs, h \in PlainHeaders, r \in {0} \cup IssuedRefresh : LogoutCheck(p, h, r)
  \/ \E p \in Procs : LogoutInsertBegin(p)
  \/ \E p \in Procs, outcome \in {"lands", "fault", "stale"} :
       LogoutInsertEnd(p, outcome) /\ LogoutBounded'
  \/ \E p \in Procs : LogoutDelete(p)
  \/ \E p \in Procs : Finish(p)

SpecLogout == Init /\ [][NextLogout]_vars

\* SpecIssue: token pairs issued and rotated, with an entropy source that
\* may fail while a rotation is served.
IssueBounded == Within(MaxUsers, IssueMaxTokens, 0, 0, 0)

NextIssue ==
  \/ Deliver
  \/ Ready /\ Register("alice", "alice@x.com", StrongPw, StrongPw) /\ IssueBounded'
  \/ Ready /\ \E u \in AllNames, pw \in {AdminPw, StrongPw} : Login(u, pw) /\ IssueBounded'
  \/ Ready /\ \E r \in RefreshInputs, entropy \in BOOLEAN :
       RefreshTokenWith(r, entropy) /\ IssueBounded'

SpecIssue == Init /\ [][NextIssue]_vars

\* SpecRelock: logins of the administrator and the clock; enough wrong
\* passwords to lock the account twice, with successful logins in between.
RelockBounded == Within(MaxUsers, RelockMaxTokens, RelockMaxFailures, 0, 0)

NextRelock ==
  \/ Deliver
  \/ Ready /\ \E t \in TimePoints(LockMaxCoarse, FALSE) : Tick(t)
  \/ Ready /\ \E pw \in {AdminPw, StrongPw} : Login("admin", pw) /\ RelockBounded'

SpecRelock == Init /\ [][NextRelock]_vars

\* SpecLock: registration, login and the clock; enough wrong passwords to
\* lock an account and enough time to see the lock end.
LockBounded == Within(MaxUsers, LockMaxTokens, LockMaxFailures, 0, 0)

NextLock ==
  \/ Deliver
  \/ Ready /\ \E t \in TimePoints(LockMaxCoarse, FALSE) : Tick(t)
  \/ Ready /\ \E u \in AllNames, pw \in {StrongPw, WeakPw} :
       Register(u, "alice@x.com", pw, pw) /\ LockBounded'
  \/ Ready /\ \E u \in AllNames \cup {"ghost"}, pw \in {AdminPw, StrongPw, ShortPw} :
       Login(u, pw) /\ LockBounded'

SpecLock == Init /\ [][NextLock]_vars

\* ------------------------------------------------------------ properties
\* The store's record of a username, and whether a password is right for it.
Known(username) == findUserByUsername(users, username) # 0
Record(username) == users[findUserByUsername(users, username)]
Correct(username, password) ==
  Known(username) /\ verifyPassword(password, Record(username).PasswordHash)

\* C1: once a user's last five logins were wrong-password failures (none
\* succeeded in between), a login for that user made less than
\* lockoutDuration after the fifth is answered 423 "Account is temporarily
\* locked", whatever the password, and issues no tokens.
C1_SixthAttemptLocked ==
  [][\A u \in AllNames :
       (/\ resp'.op = "login"
        /\ resp'.req.Username = u
        /\ Len(resp'.req.Password) >= 8
        /\ hist.streak[u] = maxFailedAttempts
        /\ now < hist.fifthAt[u] + lockoutDuration)
       => /\ resp'.status = 423
          /\ resp'.error = "Account is temporarily locked"
          /\ resp'.data = <<>>
          /\ refreshTokens' = refreshTokens
          /\ nextRand' = nextRand
          /\ hist'.issued = hist.issued]_vars

\* C1 witness: a sixth login with the correct password was answered 423.
C1_Witness ==
  /\ resp.op = "login"
  /\ resp.status = 423
  /\ hist.streak[resp.req.Username] = maxFailedAttempts
  /\ Correct(resp.req.Username, resp.req.Password)
  /\ now < hist.fifthAt[resp.req.Username] + lockoutDuration
  /\ refreshTokens = <<>>

\* C2: for a user whose locked_until is set, a login with the correct
\* password at or after locked_until succeeds (200), returns a pair whose
\* refresh token was never issued before and now maps to the user and whose
\* access token carries the user's identity, and leaves the user's counter 0
\* and locked_until unset.
C2_LoginAfterLockout ==
  [][\A u \in AllNames :
       (/\ resp'.op = "login"
        /\ resp'.req.Username = u
        /\ Len(resp'.req.Password) >= 8
        /\ Correct(u, resp'.req.Password)
        /\ Record(u).LockedUntil # NoTime
        /\ now >= Record(u).LockedUntil)
       => /\ resp'.status = 200
          /\ Len(resp'.data) = 1
          /\ resp'.data[1].RefreshToken \notin IssuedRefresh
          /\ resp'.data[1].RefreshToken \in DOMAIN refreshTokens'
          /\ refreshTokens'[resp'.data[1].RefreshToken] = Record(u).ID
          /\ resp'.data[1].AccessToken =
               SignedString(accessClaims(Record(u).ID, u, Record(u).Role, now), jwtSecret)
          /\ Record(u)'.FailedAttempts = 0
          /\ Record(u)'.LockedUntil = NoTime]_vars

\* C2 witness: a user who went through five failures has logged in strictly
\* after the end of the lockout and holds a token pair.
C2_Witness ==
  /\ resp.op = "login"
  /\ resp.status = 200
  /\ hist.failures >= maxFailedAttempts
  /\ Record(resp.req.Username).LastLogin > lockoutDuration
  /\ Record(resp.req.Username).LockedUntil = NoTime
  /\ resp.data[1].RefreshToken \in DOMAIN refreshTokens

\* C3: a refresh token is single-use: once a refresh with token t has
\* succeeded, every later refresh with t is answered 401 "Invalid or expired
\* refresh token" and issues nothing.
C3_RefreshSingleUse ==
  [][(/\ resp'.op = "refresh"
      /\ Ready
      /\ resp'.req.RefreshToken \in hist.rotated)
     => /\ resp'.status = 401
        /\ resp'.error = "Invalid or expired refresh token"
        /\ resp'.data = <<>>
        /\ refreshTokens' = refreshTokens
        /\ nextRand' = nextRand
        /\ hist'.issued = hist.issued]_vars

\* C3 witness: a refresh token that was rotated before has been presented
\* again and refused.
C3_Witness ==
  /\ resp.op = "refresh"
  /\ resp.req.RefreshToken \in hist.rotated
  /\ resp.status = 401
  /\ Cardinality(hist.issued) >= 2

\* C6: no two records of the user store share a username, and no two share an
\* email, whatever requests were served (one at a time).
C6_UniqueUsernameEmail ==
  \A i, j \in 1..Len(users) :
    i # j => /\ users[i].Username # users[j].Username
             /\ users[i].Email # users[j].Email

\* C6 witness: a registration under a username nobody holds, reusing the
\* email of a stored user, was refused with 409 and stored nothing.
C6_Witness ==
  /\ resp.op = "register"
  /\ resp.status = 409
  /\ ~Known(resp.req.Username)
  /\ findUserByEmail(users, resp.req.Email) # 0

\* C7: a token string that logout was called with is rejected by validate as
\* blacklisted from then on, and a request bearing it is answered 401.
C7_LoggedOutIsBlacklisted ==
  /\ \A t \in hist.revoked : validateToken(blacklistedTokens, t, now).err = "blacklisted"
  /\ (resp.op = "profile" /\ resp.header # <<>> /\ resp.header[1] \in hist.revoked)
       => resp.v = "blacklisted" /\ resp.status = 401

\* C7 witness: a request bearing a logged-out token that is still correctly
\* signed and unexpired was refused as blacklisted.
C7_Witness ==
  /\ resp.op = "profile"
  /\ resp.header # <<>>
  /\ resp.header[1] \in hist.revoked
  /\ ParseWithClaims(resp.header[1], now).err = ""
  /\ resp.v = "blacklisted"

\* C8: round trip: the access token issued for a user, validated before the
\* expiry it carries and while not blacklisted, yields claims whose user id,
\* username and role are the ones it was issued for.
C8_RoundTrip ==
  \A r \in hist.issued :
    (now < r.tok.payload.ExpiresAt /\ r.tok \notin blacklistedTokens)
    => LET v == validateToken(blacklistedTokens, r.tok, now) IN
       /\ v.err = ""
       /\ v.claims[1].UserID = r.uid
       /\ v.claims[1].Username = r.username
       /\ v.claims[1].Role = r.role

\* C8 witness: a request bearing the admin's token was validated and the
\* handler saw the admin's identity.
C8_Witness ==
  /\ resp.op = "profile"
  /\ resp.v = "ok"
  /\ resp.status = 200
  /\ \E r \in hist.issued :
       /\ r.tok = resp.header[1]
       /\ r.role = RoleAdmin
       /\ resp.data[1].ID = r.uid
       /\ resp.data[1].Role = r.role

\* A token string passes the signature and structure check exactly when the
\* server issued it.
Authentic(t) == t \in IssuedAccess

\* C9: validate looks at the revoked set first: a revoked token string is
\* rejected as blacklisted even when it is malformed or expired; any other
\* token is rejected as malformed when it is not authentic, else as expired
\* when past its expiry, else its claims are returned.
C9_ValidateOrder ==
  \A t \in BearerInputs \cup blacklistedTokens :
    LET v == validateToken(blacklistedTokens, t, now) IN
    IF t \in blacklistedTokens THEN v.err = "blacklisted"
    ELSE IF ~Authentic(t) THEN v.err \in {"malformed", "signature"}
    ELSE IF now >= t.payload.ExpiresAt THEN v.err = "expired"
    ELSE v.err = "" /\ v.claims = <<t.payload>>

\* C9 witness: a request bearing a revoked token that is also malformed or
\* expired was refused as blacklisted.
C9_Witness ==
  /\ resp.op = "profile"
  /\ resp.header # <<>>
  /\ resp.header[1] \in blacklistedTokens
  /\ ParseWithClaims(resp.header[1], now).err \in {"malformed", "signature", "expired"}
  /\ resp.v = "blacklisted"

\* C10 as claimed: a token issued at t, signed and not blacklisted, is
\* rejected as expired exactly when now > t + accessTokenTTL.
C10_ExpiredOnlyAfterTTL ==
  \A r \in hist.issued :
    r.tok \notin blacklistedTokens
    => (validateToken(blacklistedTokens, r.tok, now).err = "expired"
          <=> now > r.at + accessTokenTTL)

\* C10 amended: a token issued at t, signed and not blacklisted, is rejected
\* as expired exactly when now >= expires_at, where expires_at is
\* t + accessTokenTTL truncated to the whole second; at every earlier instant
\* it is accepted.
C10_ExpiredFromExpiresAt ==
  \A r \in hist.issued :
    r.tok \notin blacklistedTokens
    => LET v == validateToken(blacklistedTokens, r.tok, now) IN
       /\ v.err = "expired" <=> now >= Truncate(r.at + accessTokenTTL)
       /\ now < Truncate(r.at + accessTokenTTL) => v.err = ""

\* C10 witness: a token issued within a second is refused as expired at the
\* whole second that ends its lifetime, before t + accessTokenTTL.
C10_Witness ==
  /\ resp.op = "profile"
  /\ resp.v = "expired"
  /\ \E r \in hist.issued :
       /\ r.tok = resp.header[1]
       /\ r.at % Second # 0
       /\ now = Truncate(r.at + accessTokenTTL)
       /\ now < r.at + accessTokenTTL

\* Two handlers have both answered requests of the same kind.
BothDone(p, q, op) ==
  /\ p # q
  /\ proc[p].pc = "done" /\ proc[p].op = op
  /\ proc[q].pc = "done" /\ proc[q].op = op

\* C4 as claimed: of two handlers that ran refresh with the same refresh
\* token, at most one answers with a new pair and the other answers 401
\* "Invalid or expired refresh token".
C4_OneRotationWins ==
  \A p, q \in Procs :
    (/\ BothDone(p, q, "refresh")
     /\ proc[p].req.RefreshToken = proc[q].req.RefreshToken
     /\ proc[p].status = 200)
    => /\ proc[q].status = 401
       /\ proc[q].error = "Invalid or expired refresh token"

\* C5 as claimed: of two handlers that ran register with the same username
\* and valid passwords, one of which answered 201, exactly one answers 201
\* and the other 409, and the store never holds two records with one
\* username.
C5_OneRegistrationWins ==
  /\ \A p, q \in Procs :
       (/\ BothDone(p, q, "register")
        /\ proc[p].req.Username = proc[q].req.Username
        /\ proc[p].status = 201
        /\ proc[q].status # 400)
       => proc[q].status = 409
  /\ \A i, j \in 1..Len(users) : i # j => users[i].Username # users[j].Username

\* C11: blacklisting is idempotent: a logout with a token string that is
\* already in the revoked set leaves the revoked set as it was, and validate
\* gives every token string the same result as before it.
C11_BlacklistIdempotent ==
  [][(/\ resp'.op = "logout"
      /\ resp'.status = 200
      /\ resp'.req.Header[1] \in blacklistedTokens)
     => /\ blacklistedTokens' = blacklistedTokens
        /\ \A t \in BearerInputs \cup blacklistedTokens :
             validateToken(blacklistedTokens', t, now')
               = validateToken(blacklistedTokens, t, now)]_vars

\* C11 witness: a token that was issued and revoked has been presented to
\* logout a second time and is still rejected as blacklisted.
C11_Witness ==
  /\ resp.op = "logout"
  /\ resp.status = 200
  /\ resp.again
  /\ resp.req.Header[1] \in IssuedAccess
  /\ validateToken(blacklistedTokens, resp.req.Header[1], now).err = "blacklisted"

\* C12: revoking a refresh token is total and idempotent: a logout that
\* carries an Authorization header succeeds whatever refresh token comes with
\* it; when that refresh token is not in the map (never issued, rotated or
\* revoked before, or none given) the map is unchanged, and when it is, exactly
\* its mapping is removed.
C12_RevokeRefreshTotal ==
  [][(resp'.op = "logout" /\ resp'.req.Header # <<>>)
     => LET r == resp'.req.RefreshToken IN
        /\ resp'.status = 200
        /\ resp'.error = ""
        /\ IF r \in DOMAIN refreshTokens
           THEN /\ DOMAIN refreshTokens' = DOMAIN refreshTokens \ {r}
                /\ \A k \in DOMAIN refreshTokens' : refreshTokens'[k] = refreshTokens[k]
           ELSE refreshTokens' = refreshTokens]_vars

\* C12 witness: a logout carried a refresh token that had been rotated away
\* while another mapping was in the map, and succeeded.
C12_Witness ==
  /\ resp.op = "logout"
  /\ resp.status = 200
  /\ resp.req.RefreshToken \in hist.rotated
  /\ ~resp.held
  /\ DOMAIN refreshTokens # {}

\* The routes behind requireRole(RoleAdmin).
AdminOps == {"list-users", "change-role"}

\* C13: on a route that requires the admin role the handler runs if and only
\* if the token was validated and the role in its claims is admin; whenever
\* the gate is reached and the role is another one, or no identity was
\* validated, the gate writes the 403 denial and the handler does not run (a
\* request without Authorization header is stopped before the gate, with 401).
C13_AllowedIffRoleRequired ==
  resp.op \in AdminOps
  => /\ resp.ran <=> (resp.v = "ok" /\ resp.header[1].payload.Role \in {RoleAdmin})
     /\ (resp.header # <<>> /\ ~resp.ran)
          => /\ resp.writes[Len(resp.writes)].status = 403
             /\ resp.data = <<>>
     /\ resp.header = <<>>
          => /\ ~resp.ran
             /\ resp.writes = Wrote(401, "Authorization header required")

\* C13 witness: a validated token whose role is user was presented on an
\* admin route and was denied with 403.
C13_Witness ==
  /\ resp.op \in AdminOps
  /\ resp.v = "ok"
  /\ resp.header[1].payload.Role = RoleUser
  /\ ~resp.ran
  /\ resp.status = 403

\* C14: the decision follows the role the token was issued with, whatever the
\* store holds now: a validated token is allowed on an admin route exactly
\* when the user's role was admin when it was issued; and every token pair
\* issued by login or refresh carries the role the store holds at that moment.
C14_RoleFromClaimsNotStore ==
  /\ [](resp.op \in AdminOps /\ resp.v = "ok"
        => \A r \in hist.issued :
             r.tok = resp.header[1] => (resp.ran <=> r.role = RoleAdmin))
  /\ [][\A r \in hist'.issued \ hist.issued :
          r.tok.payload.Role = users'[findUserByID(users', r.uid)].Role]_vars

\* C14 witness: a token issued to an administrator was still allowed on an
\* admin route after the store had changed that user's role to user.
C14_Witness ==
  /\ resp.op = "list-users"
  /\ resp.v = "ok"
  /\ resp.ran
  /\ \E r \in hist.issued :
       /\ r.tok = resp.header[1]
       /\ r.role = RoleAdmin
       /\ users[findUserByID(users, r.uid)].Role = RoleUser

\* C15: a login for a username that is not in the store and a login with a
\* wrong password for a stored user whose account is not locked are answered
\* alike: status 401, message "Invalid credentials", no data.
C15_UnknownLikeWrongPassword ==
  [][\A u \in AllNames \cup {"ghost"} :
       (/\ resp'.op = "login"
        /\ resp'.req.Username = u
        /\ Len(resp'.req.Password) >= 8
        /\ \/ ~Known(u)
           \/ /\ Known(u)
              /\ ~isAccountLocked(Record(u), now)
              /\ ~Correct(u, resp'.req.Password))
       => /\ resp'.status = 401
          /\ resp'.error = "Invalid credentials"
          /\ resp'.data = <<>>]_vars

\* C15 witness: after a wrong password for a stored user was answered, a
\* login for a username nobody holds got the same answer.
C15_Witness ==
  /\ resp.op = "login"
  /\ ~Known(resp.req.Username)
  /\ resp.status = 401
  /\ resp.error = "Invalid credentials"
  /\ hist.failures >= 1

\* C16 as claimed: a refresh presented with a refresh token issued at least
\* refreshTokenTTL ago is answered 401 "Invalid or expired refresh token" and
\* the token's mapping is gone afterwards.
C16_RefreshTokenExpires ==
  [][(/\ resp'.op = "refresh"
      /\ \E r \in hist.issued :
           /\ r.refresh = resp'.req.RefreshToken
           /\ now >= r.at + refreshTokenTTL)
     => /\ resp'.status = 401
        /\ resp'.error = "Invalid or expired refresh token"
        /\ resp'.req.RefreshToken \notin DOMAIN refreshTokens']_vars

\* C17 as claimed: once a logout was served with an access token, a refresh
\* with the refresh token issued together with that access token is refused.
C17_LogoutEndsSession ==
  [][(/\ resp'.op = "refresh"
      /\ \E r \in hist.issued :
           /\ r.refresh = resp'.req.RefreshToken
           /\ r.tok \in hist.revoked)
     => /\ resp'.status = 401
        /\ resp'.data = <<>>]_vars

\* No handler is between reading a request and answering it.
Quiescent == \A p \in Procs : proc[p].pc \in {"idle", "done"}

\* C18 as claimed: under concurrent logins every wrong password is counted
\* and the fifth locks the account: whenever no login is in progress, a user
\* with fewer than five wrong passwords since the last success has a counter
\* equal to their number and is not locked, and a user with five or more is
\* locked.
C18_FailuresCountedAtomically ==
  Quiescent
  => \A u \in AllNames :
       Known(u)
       => IF hist.streak[u] < maxFailedAttempts
          THEN /\ Record(u).FailedAttempts = hist.streak[u]
               /\ Record(u).LockedUntil = NoTime
          ELSE Record(u).LockedUntil # NoTime

\* C19: between requests every user's failed-attempt counter is in 0..4; it
\* is 0 right after a request that set locked_until and right after a
\* successful login of that user.
C19_CounterBelowThreshold ==
  /\ [](\A i \in 1..Len(users) :
          users[i].FailedAttempts \in 0..(maxFailedAttempts - 1))
  /\ [][\A i \in 1..Len(users) :
          /\ (users'[i].LockedUntil # users[i].LockedUntil /\ users'[i].LockedUntil # NoTime)
               => users'[i].FailedAttempts = 0
          /\ (resp'.op = "login" /\ resp'.status = 200
                /\ resp'.req.Username = users[i].Username)
               => users'[i].FailedAttempts = 0]_vars

\* C19 witness: the fifth wrong password in a row has just been answered: the
\* user is locked and the counter is back to 0.
C19_Witness ==
  /\ resp.op = "login"
  /\ resp.status = 401
  /\ Known(resp.req.Username)
  /\ hist.streak[resp.req.Username] = maxFailedAttempts
  /\ hist.fifthAt[resp.req.Username] = now
  /\ Record(resp.req.Username).LockedUntil = now + lockoutDuration
  /\ Record(resp.req.Username).FailedAttempts = 0

C21_InvalidPasswordRejectedFirst ==
  [][(/\ resp'.op = "register"
      /\ resp # resp'
      /\ \/ resp'.req.Password \in {WeakPw, ShortPw}
         \/ resp'.req.ConfirmPassword # resp'.req.Password)
     => /\ resp'.status = 400
        /\ resp'.error = (IF resp'.req.Password = ShortPw THEN "Invalid input data"
                          ELSE IF resp'.req.ConfirmPassword # resp'.req.Password
                               THEN "Passwords do not match"
                          ELSE "Password does not meet strength requirements")
        /\ users' = users
        /\ nextUserID' = nextUserID]_vars

\* A weak password is refused for a username that is taken: 400, not 409.
C21_Witness ==
  /\ resp.op = "register"
  /\ resp.status = 400
  /\ resp.req.Password = WeakPw
  /\ resp.req.ConfirmPassword = WeakPw
  /\ \E i \in 1..Len(users) : users[i].Username = resp.req.Username
  /\ \E i \in 1..Len(users) : users[i].Email = resp.req.Email


\* ---------------------------------------------------------------- C22
\* The user a successful update is about (the token's user, or the user of
\* the path for a role change) and what the store must hold for that user
\* afterwards.
UpdateTarget(r) ==
  IF r.op = "change-role" THEN r.req.id ELSE r.header[1].payload.UserID

UpdateStored(r, user) ==
  CASE r.op = "change-role" -> user.Role = r.req.role
    [] r.op = "change-password" -> verifyPassword(r.req.NewPassword, user.PasswordHash)
    [] r.op = "update-profile" ->
         /\ user.FirstName = r.req.FirstName
         /\ user.LastName = r.req.LastName
         /\ user.Email = r.req.Email

UpdateKeepsOthers(ops) ==
     (/\ resp' # resp
      /\ resp'.op \in ops
      /\ resp'.v = "ok"
      /\ resp'.ran
      /\ resp'.status = 200)
     => \E i \in 1..Len(users') :
          /\ users'[i].ID = UpdateTarget(resp')
          /\ UpdateStored(resp', users'[i])
          /\ users'[i].UpdatedAt = now
          /\ Len(users') = Len(users)
          /\ \A j \in 1..Len(users) : j # i => users'[j] = users[j]

\* C22: after a successful role change, profile update or password change
\* the store's record of the user concerned holds the new values and
\* updated_at = now, and every other record is unchanged.
C22_UpdateInPlace ==
  [][UpdateKeepsOthers({"change-role", "update-profile", "change-password"})]_vars

\* The same for the two operations that do write the store.
C22_RoleAndPasswordInPlace ==
  [][UpdateKeepsOthers({"change-role", "change-password"})]_vars


\* ---------------------------------------------------------------- C23
\* The routes behind authMiddleware.
ProtectedOps == {"profile", "update-profile", "change-password"} \cup AdminOps

\* C23: a request to a protected route whose token is missing or is refused
\* by validateToken (blacklisted, malformed, expired) is answered by
\* authMiddleware alone: neither requireRole nor the handler writes anything
\* and the handler does not run.
C23_ValidateBeforeGateAndHandler ==
  (resp.op \in ProtectedOps /\ resp.v # "ok")
  => (~resp.ran /\ Len(resp.writes) = 1)


\* ---------------------------------------------------------------- C24
\* C24: a wrong password for a stored, unlocked user whose counter is c
\* changes that user's record in exactly this way: when c + 1 < 5 the counter
\* becomes c + 1 and locked_until stays as it was; when c + 1 reaches 5
\* locked_until becomes now + 30 min and the counter becomes 0.  No other
\* field and no other record changes.
C24_RecordFailure ==
  [][\A i \in 1..Len(users) :
       (/\ resp'.op = "login"
        /\ resp' # resp
        /\ resp'.req.Username = users[i].Username
        /\ resp'.status = 401)
       => LET c == users[i].FailedAttempts IN
          /\ users'[i] = (IF c + 1 < maxFailedAttempts
                          THEN [users[i] EXCEPT !.FailedAttempts = c + 1]
                          ELSE [users[i] EXCEPT !.FailedAttempts = 0,
                                                !.LockedUntil = now + 30 * Minute])
          /\ \A j \in 1..Len(users) : j # i => users'[j] = users[j]
          /\ Len(users') = Len(users)]_vars

\* C24 witness: a first failure after a lock has ended; the counter is 1 and
\* the locked_until of the lock that ended is still in the record.
C24_Witness ==
  /\ resp.op = "login"
  /\ resp.status = 401
  /\ \E i \in 1..Len(users) :
       /\ users[i].Username = resp.req.Username
       /\ users[i].FailedAttempts = 1
       /\ users[i].LockedUntil # NoTime
       /\ users[i].LockedUntil <= now


\* ---------------------------------------------------------------- C25
\* C25: a login for a stored user is refused as locked (423) if and only if
\* the user's locked_until is set and strictly after now; with locked_until
\* unset, equal to now or in the past the login goes on to the password
\* check.  The lock check itself changes nothing: a refused login leaves the
\* store, the token maps and the counters as they were.
C25_LockedIffStrictlyBefore ==
  [][\A i \in 1..Len(users) :
       (/\ resp'.op = "login"
        /\ resp' # resp
        /\ resp'.req.Username = users[i].Username
        /\ Len(resp'.req.Password) >= 8)
       => /\ (resp'.status = 423)
               <=> (users[i].LockedUntil # NoTime /\ users[i].LockedUntil > now)
          /\ isAccountLocked(users[i], now)
               <=> (users[i].LockedUntil # NoTime /\ users[i].LockedUntil > now)
          /\ resp'.status = 423
               => UNCHANGED <<users, refreshTokens, blacklistedTokens, nextUserID,
                              nextRand, hist>>]_vars

\* C25 witness: a login made at the very instant locked_until was not
\* refused as locked: it went on to the password check, which failed.
C25_Witness ==
  /\ resp.op = "login"
  /\ resp.status = 401
  /\ \E i \in 1..Len(users) :
       /\ users[i].Username = resp.req.Username
       /\ users[i].LockedUntil = now
       /\ users[i].FailedAttempts = 1


\* ---------------------------------------------------------------- C26
\* C26: only consecutive failures lock.  A user's locked_until is set only
\* when at least 5 wrong passwords were counted since the user's last
\* successful login, and a wrong password sets locked_until exactly when the
\* number of wrong passwords counted since the last successful login becomes
\* a multiple of 5: the fifth locks, and after that lock the tenth does, not
\* an earlier one.
C26_OnlyConsecutiveFailuresLock ==
  /\ [](\A i \in 1..Len(users) :
          users[i].LockedUntil # NoTime
          => hist.streak[users[i].Username] >= maxFailedAttempts)
  /\ [][\A i \in 1..Len(users) :
          (/\ resp'.op = "login"
           /\ resp' # resp
           /\ resp'.req.Username = users[i].Username
           /\ resp'.status = 401)
          => /\ hist'.streak[users[i].Username] = hist.streak[users[i].Username] + 1
             /\ (users'[i].LockedUntil # users[i].LockedUntil)
                  <=> (hist'.streak[users[i].Username] % maxFailedAttempts = 0)]_vars

\* C26 witness: the account was locked a second time, by the tenth wrong
\* password since the last successful login, after the first lock had ended.
C26_Witness ==
  /\ resp.op = "login"
  /\ resp.status = 401
  /\ hist.streak["admin"] = 2 * maxFailedAttempts
  /\ hist.fifthAt["admin"] + lockoutDuration <= now
  /\ users[1].LockedUntil = now + lockoutDuration
  /\ users[1].LastLogin # NoTime


\* ---------------------------------------------------------------- C27
\* C27 as claimed: a refresh that is answered with an error leaves the
\* refresh-token map exactly as it was, and a refresh removes a mapping only
\* when it also returns a new pair.
C27_RotateAllOrNothing ==
  [][(resp'.op = "refresh" /\ resp' # resp)
     => /\ resp'.status # 200 => refreshTokens' = refreshTokens
        /\ (\E k \in DOMAIN refreshTokens : k \notin DOMAIN refreshTokens')
             => (resp'.status = 200 /\ Len(resp'.data) = 1)]_vars

\* What holds: the map is unchanged by a refresh refused with 400 or 401.
C27_RefusedRotationKeepsMap ==
  [][(resp'.op = "refresh" /\ resp' # resp /\ resp'.status \in {400, 401})
     => refreshTokens' = refreshTokens]_vars


\* ---------------------------------------------------------------- C28
\* C28: when a login or a refresh is answered 200 for user u, the refresh
\* token of the returned pair is a key of the refresh-token map and maps to
\* u's id; and the access token a refresh returns carries the id and the
\* username of the user the presented refresh token was mapped to and the
\* role that user has in the store when the refresh is served.
C28_IssueRecordsMapping ==
  [][(/\ resp'.op \in {"login", "refresh"}
      /\ resp' # resp
      /\ resp'.status = 200)
     => \E i \in 1..Len(users) :
          /\ IF resp'.op = "login" THEN users[i].Username = resp'.req.Username
             ELSE /\ resp'.req.RefreshToken \in DOMAIN refreshTokens
                  /\ users[i].ID = refreshTokens[resp'.req.RefreshToken]
          /\ Len(resp'.data) = 1
          /\ resp'.data[1].RefreshToken \in DOMAIN refreshTokens'
          /\ refreshTokens'[resp'.data[1].RefreshToken] = users[i].ID
          /\ resp'.data[1].AccessToken.payload.UserID = users[i].ID
          /\ resp'.data[1].AccessToken.payload.Username = users[i].Username
          /\ resp'.data[1].AccessToken.payload.Role = users'[i].Role
          /\ resp'.data[1].AccessToken.sig =
               HS256(resp'.data[1].AccessToken.payload, jwtSecret)]_vars

\* C28 witness: a refresh token was rotated after the role of its user had
\* been changed; the new access token carries the role of the store, not the
\* role of the pair the refresh token came with.
C28_Witness ==
  /\ resp.op = "refresh"
  /\ resp.status = 200
  /\ resp.data[1].RefreshToken \in DOMAIN refreshTokens
  /\ \E r \in hist.issued :
       /\ r.refresh = resp.req.RefreshToken
       /\ r.role # resp.data[1].AccessToken.payload.Role
       /\ r.uid = resp.data[1].AccessToken.payload.UserID
       /\ \E i \in 1..Len(users) :
            /\ users[i].ID = r.uid
            /\ users[i].Role = resp.data[1].AccessToken.payload.Role


C30_RevokedSetOnlyGrows ==
  [][/\ blacklistedTokens \subseteq blacklistedTokens'
     /\ \A t \in blacklistedTokens :
          validateToken(blacklistedTokens', t, now').err = "blacklisted"
     /\ (/\ resp'.op \in ProtectedOps
         /\ resp' # resp
         /\ resp'.header # <<>>
         /\ resp'.header[1] \in hist.revoked)
        => (resp'.v = "blacklisted" /\ resp'.status = 401)]_vars

\* C30 witness: a user registered after an issued access token had been
\* revoked, and the token is still in the revoked set.
C30_Witness ==
  /\ resp.op = "register"
  /\ resp.status = 201
  /\ \E t \in blacklistedTokens : t \in IssuedAccess /\ t \in hist.revoked


\* ---------------------------------------------------------------- C31
\* C31 as claimed: whenever handlers log tokens out concurrently, no handler
\* faults, and once a logout has been answered 200 its token is in the
\* revoked set and stays there.
C31_ConcurrentLogoutsBothRevoked ==
  /\ \A p \in Procs : proc[p].pc # "fault"
  /\ hist.revoked \subseteq blacklistedTokens
  /\ \A p \in Procs :
       (proc[p].pc = "done" /\ proc[p].op = "logout" /\ proc[p].status = 200)
       => proc[p].req.Header[1] \in blacklistedTokens

\* What holds: logouts whose map writes do not overlap revoke their tokens.
C31_UnracedLogoutsRevoke ==
  [][\A p \in Procs :
       (/\ proc[p].pc = "logout_inserting"
        /\ ~proc[p].raced
        /\ proc'[p].pc = "logout_delete")
       => /\ proc[p].req.Header[1] \in blacklistedTokens'
          /\ blacklistedTokens \subseteq blacklistedTokens']_vars


\* ---------------------------------------------------------------- C32
\* C32: a login for username A, whatever its outcome, leaves the record of
\* every other user as it was (counter, locked_until and last login
\* included); and a login with the correct password for a user whose own
\* locked_until is unset or not after now succeeds, whoever else is locked.
C32_LockoutIsPerUser ==
  [][(resp'.op = "login" /\ resp' # resp)
     => /\ Len(users') = Len(users)
        /\ \A j \in 1..Len(users) :
             users[j].Username # resp'.req.Username => users'[j] = users[j]
        /\ \A j \in 1..Len(users) :
             (/\ users[j].Username = resp'.req.Username
              /\ users[j].PasswordHash.of = resp'.req.Password
              /\ (users[j].LockedUntil = NoTime \/ users[j].LockedUntil <= now))
             => resp'.status = 200]_vars

\* C32 witness: a user logged in while another user's account was locked,
\* and that lock is still in place.
C32_Witness ==
  /\ resp.op = "login"
  /\ resp.status = 200
  /\ \E j \in 1..Len(users) :
       /\ users[j].Username # resp.req.Username
       /\ users[j].LockedUntil # NoTime
       /\ users[j].LockedUntil > now


\* ---------------------------------------------------------------- C33
\* The four classes of characters, by their code points.
IsUpper(char) == 65 <= char /\ char <= 90
IsLower(char) == 97 <= char /\ char <= 122
IsDigit(char) == 48 <= char /\ char <= 57

FourClasses(password) ==
  /\ \E i \in 1..Len(password) : IsUpper(password[i])
  /\ \E i \in 1..Len(password) : IsLower(password[i])
  /\ \E i \in 1..Len(password) : IsDigit(password[i])
  /\ \E i \in 1..Len(password) :
       ~IsUpper(password[i]) /\ ~IsLower(password[i]) /\ ~IsDigit(password[i])

\* C33 as claimed: isStrongPassword answers true exactly for the passwords of
\* at least 8 characters that hold an uppercase letter, a lowercase letter,
\* a digit and a character that is none of these.
C33_StrongIffEightCharsFourClasses ==
  resp.op = "strength"
  => (resp.ok <=> (Len(resp.req.Password) >= 8 /\ FourClasses(resp.req.Password)))

\* What holds: the same with the length counted in bytes of the UTF-8
\* encoding.
C33_StrongIffEightBytesFourClasses ==
  resp.op = "strength"
  => (resp.ok <=> (ByteLen(resp.req.Password) >= 8 /\ FourClasses(resp.req.Password)))


\* ---------------------------------------------------------------- C34
\* C34: a login for a user whose locked_until is after now is answered 423
\* whatever the password and changes no record and counts no failure; so
\* while the first lock of a user is in the record it is the one set by the
\* fifth failure (fifth failure + 30 min), and a login with the correct
\* password made at or after that instant succeeds.
C34_AttemptsDuringLockChangeNothing ==
  /\ [](\A i \in 1..Len(users) :
          (users[i].LockedUntil # NoTime
           /\ hist.streak[users[i].Username] < 2 * maxFailedAttempts)
          => users[i].LockedUntil = hist.fifthAt[users[i].Username] + 30 * Minute)
  /\ [][\A i \in 1..Len(users) :
          (/\ resp'.op = "login"
           /\ resp' # resp
           /\ resp'.req.Username = users[i].Username
           /\ Len(resp'.req.Password) >= 8
           /\ users[i].LockedUntil # NoTime)
          => IF users[i].LockedUntil > now
             THEN /\ resp'.status = 423
                  /\ users' = users
                  /\ hist' = hist
                  /\ refreshTokens' = refreshTokens
             ELSE users[i].PasswordHash.of = resp'.req.Password
                  => resp'.status = 200]_vars

\* C34 witness: a login with the correct password was refused as locked one
\* access-token lifetime after the lock was set, and the lock is unchanged.
C34_Witness ==
  /\ resp.op = "login"
  /\ resp.status = 423
  /\ \E i \in 1..Len(users) :
       /\ users[i].Username = resp.req.Username
       /\ users[i].PasswordHash.of = resp.req.Password
       /\ hist.fifthAt[resp.req.Username] # NoTime
       /\ now > hist.fifthAt[resp.req.Username]
       /\ users[i].LockedUntil = hist.fifthAt[resp.req.Username] + lockoutDuration
       /\ users[i].FailedAttempts = 0


\* ---------------------------------------------------------------- C35
\* C35: a login that is not answered 200 leaves the refresh-token map, the
\* revoked set, the id counter and the number of users as they were and
\* returns no data; it changes no record when the username is unknown, the
\* request is malformed or the account is locked, and after a wrong password
\* the user's record differs from before in the failed-attempt counter and
\* locked_until at most (last login included in what is kept).
C35_FailedLoginIssuesNothing ==
  [][(resp'.op = "login" /\ resp' # resp /\ resp'.status # 200)
     => /\ refreshTokens' = refreshTokens
        /\ blacklistedTokens' = blacklistedTokens
        /\ nextRand' = nextRand
        /\ nextUserID' = nextUserID
        /\ hist'.issued = hist.issued
        /\ resp'.data = <<>>
        /\ Len(users') = Len(users)
        /\ \A i \in 1..Len(users) :
             users'[i] = [users[i] EXCEPT !.FailedAttempts = users'[i].FailedAttempts,
                                          !.LockedUntil = users'[i].LockedUntil]
        /\ (\/ resp'.status \in {400, 423}
            \/ \A i \in 1..Len(users) : users[i].Username # resp'.req.Username)
           => users' = users]_vars

\* C35 witness: a wrong password was counted for a user who had logged in
\* before and holds a refresh token; the token map and the last login are
\* as that login left them.
C35_Witness ==
  /\ resp.op = "login"
  /\ resp.status = 401
  /\ \E i \in 1..Len(users) :
       /\ users[i].Username = resp.req.Username
       /\ users[i].FailedAttempts >= 1
       /\ users[i].LastLogin # NoTime
       /\ \E k \in DOMAIN refreshTokens : refreshTokens[k] = users[i].ID


\* ---------------------------------------------------------------- C36
\* The mappings of rt other than that of key k are in rt2 as they were.
OthersKept(rt, rt2, k) ==
  \A x \in DOMAIN rt \ {k} : x \in DOMAIN rt2 /\ rt2[x] = rt[x]

\* C36: a refresh and a logout leave every refresh-token mapping other than
\* that of the token presented in place, a login leaves all of them in
\* place; a refresh and a login add nothing to the revoked set, so every
\* access token that validated before the request validates after it, and a
\* logout adds the presented access token only.
C36_OnlyThePresentedToken ==
  [][/\ (resp'.op = "refresh" /\ resp' # resp)
        => /\ OthersKept(refreshTokens, refreshTokens', resp'.req.RefreshToken)
           /\ blacklistedTokens' = blacklistedTokens
     /\ (resp'.op = "login" /\ resp' # resp)
        => /\ OthersKept(refreshTokens, refreshTokens', 0)
           /\ blacklistedTokens' = blacklistedTokens
     /\ (resp'.op = "logout" /\ resp' # resp)
        => /\ OthersKept(refreshTokens, refreshTokens', resp'.req.RefreshToken)
           /\ blacklistedTokens' \subseteq
                blacklistedTokens \cup {resp'.req.Header[i] : i \in 1..Len(resp'.req.Header)}
     /\ (resp'.op \in {"refresh", "login"} /\ resp' # resp)
        => \A r \in hist.issued :
             validateToken(blacklistedTokens, r.tok, now).err = ""
             => validateToken(blacklistedTokens', r.tok, now').err = ""]_vars

\* C36 witness: a user with two sessions rotated the refresh token of one;
\* the mapping of the other session is in place and the access token that
\* came with the rotated refresh token still validates.
C36_Witness ==
  /\ resp.op = "refresh"
  /\ resp.status = 200
  /\ \E k \in DOMAIN refreshTokens :
       /\ k # resp.data[1].RefreshToken
       /\ refreshTokens[k] = refreshTokens[resp.data[1].RefreshToken]
  /\ \E r \in hist.issued :
       /\ r.refresh = resp.req.RefreshToken
       /\ validateToken(blacklistedTokens, r.tok, now).err = ""


\* ---------------------------------------------------------------- C37
\* The ids of the store are pairwise distinct and, unless a handler stands
\* between its append (843) and its nextUserID++ (844), below the id counter.
IdsUnique ==
  /\ \A i, j \in 1..Len(users) : i # j => users[i].ID # users[j].ID
  /\ (\A p \in Procs : proc[p].pc # "register_incr")
     => \A i \in 1..Len(users) : users[i].ID < nextUserID

\* No step changes the id of a record of the store or drops a record.
IdsKept ==
  /\ Len(users') >= Len(users)
  /\ \A i \in 1..Len(users) : i <= Len(users') => users'[i].ID = users[i].ID

\* C37 as claimed: in every state the ids of the store are pairwise distinct
\* and below the id counter, and no step changes the id of a record, also
\* while two registrations for different usernames are under way.
C37_IdsUniqueAndImmutable == []IdsUnique /\ [][IdsKept]_vars

\* What holds: the same when the requests are served one at a time.
C37_IdsUniqueOneAtATime == []IdsUnique /\ [][IdsKept]_vars /\ [](\A p \in Procs : proc[p] = Idle)


\* ---------------------------------------------------------------- C38
\* The write that ends handler p's login is in the record a lookup of the
\* user returns afterwards: after a wrong password the counter the handler
\* read plus one (0 and a lock at the threshold), after a success a cleared
\* counter and lock and the last login.
LoginUpdateVisible(p) ==
  \E i \in 1..Len(users') :
    /\ i = findUserByUsername(users', proc[p].req.Username)
    /\ IF proc[p].pc = "login_reset"
       THEN /\ users'[i].FailedAttempts = 0
            /\ users'[i].LockedUntil = NoTime
            /\ users'[i].LastLogin = now
       ELSE /\ users'[i].FailedAttempts = (proc[p].seen + 1) % maxFailedAttempts
            /\ proc[p].seen + 1 = maxFailedAttempts
               => users'[i].LockedUntil = now + lockoutDuration

\* C38 as claimed: whatever a concurrent registration does between login's
\* lookup and its write, the increment, lock or reset is visible in the
\* store when the login ends.
C38_LoginUpdateSurvivesAppend ==
  [][\A p \in Procs :
       (proc[p].pc \in {"login_record_write", "login_reset"} /\ proc'[p].pc = "done")
       => LoginUpdateVisible(p)]_vars

\* What holds: the update is visible when no append has reallocated the
\* store since the lookup.
C38_UpdateVisibleWithoutReallocation ==
  [][\A p \in Procs :
       (/\ proc[p].pc \in {"login_record_write", "login_reset"}
        /\ proc'[p].pc = "done"
        /\ ~proc[p].stale)
       => LoginUpdateVisible(p)]_vars


\* ---------------------------------------------------------------- C39
\* C39: in every state each key of the refresh-token map is mapped to the
\* id of a record of the store, and a refresh that presents a key of the map
\* is never refused for a missing user.
C39_RefreshTokensMapToUsers ==
  /\ [](\A k \in DOMAIN refreshTokens :
          \E i \in 1..Len(users) : users[i].ID = refreshTokens[k])
  /\ [][(/\ resp'.op = "refresh"
         /\ resp' # resp
         /\ resp'.req.RefreshToken \in DOMAIN refreshTokens)
        => resp'.error # "User not found or is not active"]_vars

\* C39 witness: a user who registered after the start rotated a refresh
\* token while the administrator holds one as well.
C39_Witness ==
  /\ resp.op = "refresh"
  /\ resp.status = 200
  /\ Len(users) >= 2
  /\ refreshTokens[resp.data[1].RefreshToken] = users[2].ID
  /\ \E k \in DOMAIN refreshTokens : refreshTokens[k] = users[1].ID


\* ---------------------------------------------------------------- C40
\* C40: every password hash held by a record of the store was produced with
\* a cost factor of at least 12.
C40_StoredHashesCostAtLeastTwelve ==
  \A i \in 1..Len(users) : users[i].PasswordHash.cost >= hashPasswordCost

====
